---- MODULE Spec2Model ----
(***************************************************************************)
(* Trigger orchestration of plugins/builds/index.js: what happens to the   *)
(* downstream builds of a workflow when a build finishes.                  *)
(*                                                                         *)
(* Job names are modelled structurally: a bare name "A" is [pid |-> 0,     *)
(* job |-> "A"], the qualified name sd@2:A is [pid |-> 2, job |-> "A"].    *)
(* A provenance map (parentBuilds) is a function from pipeline ids to      *)
(* [eventId, jobs], jobs a function from job names to build ids; null is   *)
(* Null, an absent key is a key outside the DOMAIN.                        *)
(***************************************************************************)
EXTENDS Integers, Sequences, FiniteSets, TLC

VARIABLES workflow, externalJoin, disabledJob, builds, events, tasks, pure

vars == <<workflow, externalJoin, disabledJob, builds, events, tasks, pure>>

\* ------------------------------------------------------------------ bounds
\* triggerNextJobs calls made in one behaviour
MaxCalls == 2
\* events that exist in one behaviour (the first one included)
MaxEvents == 3
\* partial reruns started in one behaviour
MaxReruns == 1
\* jobs of the workflow graphs the rerun resolver is applied to
MaxJobs == 4
\* jobs of the workflow graphs with cycles the rerun resolver is applied to
MaxCycleJobs == 3
\* provenance harness: pipelines, build ids, job names of the merged maps, members
\* of a join list
MaxPipelines == 2
MaxBuildId == 2
MaxMergeJobs == 1
MaxMembers == 2

\* the workflows that cross two pipelines need one completion more than the others
\* to reach their join
MaxCallsOf(w) == IF w \in {"nested", "crossJoin"} THEN MaxCalls + 1 ELSE MaxCalls

\* ------------------------------------------------------------------ values
Null == 0
NoId == <<0, "">>
Pipeline == 1
OtherPipeline == 2

Finished == {"FAILURE", "SUCCESS", "ABORTED", "UNSTABLE", "COLLAPSED"}
Failed == {"FAILURE", "ABORTED", "COLLAPSED"}

Bare(j) == [pid |-> 0, job |-> j]
Sd(p, j) == [pid |-> p, job |-> j]
JobId(p, j) == <<p, j>>

Range(s) == {s[i] : i \in DOMAIN s}

\* ------------------------------------------------------------------ names
isExternalTrigger(jobName) == jobName.pid # 0

getPipelineAndJob(name, pipelineId) ==
    IF isExternalTrigger(name)
    THEN [externalPipelineId |-> name.pid, externalJobName |-> name.job]
    ELSE [externalPipelineId |-> pipelineId, externalJobName |-> name.job]

\* a name holds ":" exactly when it is qualified (PR job names are not modelled)
isPR(jobName) == jobName.pid # 0

trimJobName(jobName) == IF isPR(jobName) THEN Bare(jobName.job) ELSE jobName

\* ------------------------------------------------------------------ workflow graph queries
\* workflowParser.getNextJobs: the destinations of the edges leaving the trigger
getNextJobs(workflowGraph, trigger) ==
    {e.dest : e \in {x \in workflowGraph.edges : x.src = trigger}}

\* workflowParser.getSrcForJoin: the nodes that are sources of a join edge into jobName
getSrcForJoin(workflowGraph, jobName) ==
    SelectSeq(workflowGraph.nodes,
              LAMBDA n : \E e \in workflowGraph.edges :
                            e.dest = jobName /\ e.join /\ e.src = n.name)

HasNode(workflowGraph, name) ==
    \E i \in DOMAIN workflowGraph.nodes : workflowGraph.nodes[i].name = name

\* workflowGraph.nodes.find(node => node.name === name), for a name that has a node
FindNode(workflowGraph, name) ==
    workflowGraph.nodes[CHOOSE i \in DOMAIN workflowGraph.nodes :
                           workflowGraph.nodes[i].name = name]

\* builds.find(build => build.jobId === jobId): the first one, Null when there is none
FindBuild(list, jobId) ==
    IF \E i \in DOMAIN list : list[i].jobId = jobId
    THEN list[CHOOSE i \in DOMAIN list :
                 /\ list[i].jobId = jobId
                 /\ \A k \in 1..(i - 1) : list[k].jobId # jobId].id
    ELSE Null

\* ------------------------------------------------------------------ partial rerun
\* dfs returns the visited build ids, or the error it throws: TypeError when the
\* start name has no node, RangeError when the recursion never ends (depth counts
\* the frames left: more frames than nodes means a job was entered twice on one path).
RECURSIVE dfs(_, _, _, _, _)
RECURSIVE dfsEach(_, _, _, _, _)
dfs(workflowGraph, start, list, visited, depth) ==
    IF ~HasNode(workflowGraph, start)
    THEN [err |-> "TypeError", visited |-> visited]
    ELSE LET jobId == FindNode(workflowGraph, start).id
             nextJobs == getNextJobs(workflowGraph, start)
         IN  IF FindBuild(list, jobId) = Null
             THEN [err |-> "none", visited |-> visited]
             ELSE IF depth = 0
             THEN [err |-> "RangeError", visited |-> visited]
             ELSE dfsEach(workflowGraph, nextJobs, list,
                          visited \cup {FindBuild(list, jobId)}, depth - 1)

dfsEach(workflowGraph, nextJobs, list, visited, depth) ==
    IF nextJobs = {}
    THEN [err |-> "none", visited |-> visited]
    ELSE LET job == CHOOSE j \in nextJobs : TRUE
             r == dfs(workflowGraph, job, list, visited, depth)
         IN  IF r.err # "none"
             THEN r
             ELSE dfsEach(workflowGraph, nextJobs \ {job}, list, r.visited, depth)

\* mutant: the filter keeps the visited builds instead of dropping them
removeDownstreamBuildsInverted(list, startFrom, workflowGraph) ==
    LET r == dfs(workflowGraph, startFrom, list, {}, Len(workflowGraph.nodes))
    IN  IF r.err # "none"
        THEN [err |-> r.err, builds |-> <<>>]
        ELSE [err |-> "none",
              builds |-> SelectSeq(list, LAMBDA b : b.id \in r.visited)]

removeDownstreamBuilds(list, startFrom, workflowGraph) ==
    LET r == dfs(workflowGraph, startFrom, list, {}, Len(workflowGraph.nodes))
    IN  IF r.err # "none"
        THEN [err |-> r.err, builds |-> <<>>]
        ELSE [err |-> "none",
              builds |-> SelectSeq(list, LAMBDA b : b.id \notin r.visited)]

\* ------------------------------------------------------------------ provenance
\* mutant: a key both maps hold is set to null
deepmergeJobsClearsShared(target, source) ==
    [k \in DOMAIN target \cup DOMAIN source |->
        IF k \in DOMAIN source
        THEN (IF k \in DOMAIN target THEN Null ELSE source[k])
        ELSE target[k]]

\* deepmerge of two jobs maps: a key of the source replaces the target's, null included
deepmergeJobs(target, source) ==
    [k \in DOMAIN target \cup DOMAIN source |->
        IF k \in DOMAIN source THEN source[k] ELSE target[k]]

\* deepmerge of two pipeline entries {eventId, jobs}: eventId is a scalar (the
\* source's wins), jobs is merged key by key
deepmergeEntry(target, source) ==
    [eventId |-> source.eventId, jobs |-> deepmergeJobs(target.jobs, source.jobs)]

deepmerge(target, source) ==
    [p \in DOMAIN target \cup DOMAIN source |->
        IF p \notin DOMAIN source THEN target[p]
        ELSE IF p \notin DOMAIN target THEN source[p]
        ELSE deepmergeEntry(target[p], source[p])]

\* deepmerge.all: a left fold from the empty object
RECURSIVE deepmergeAll(_)
deepmergeAll(maps) ==
    IF maps = <<>> THEN <<>>
    ELSE deepmerge(deepmergeAll(SubSeq(maps, 1, Len(maps) - 1)), maps[Len(maps)])

\* createParentBuildsObj with joinListNames: every name assigns its pipeline's entry
\* anew, so the entry of a pipeline is the one written for its last name
createParentBuildsObjJoin(pipelineId, joinListNames) ==
    LET info(i) == getPipelineAndJob(joinListNames[i], pipelineId)
        pids == {info(i).externalPipelineId : i \in DOMAIN joinListNames}
        last(p) == CHOOSE i \in DOMAIN joinListNames :
                      /\ info(i).externalPipelineId = p
                      /\ \A k \in DOMAIN joinListNames :
                            info(k).externalPipelineId = p => k <= i
    IN  [p \in pids |->
            [eventId |-> Null, jobs |-> (info(last(p)).externalJobName :> Null)]]

\* createParentBuildsObj without joinListNames: the single entry of one build
createParentBuildsObj(buildId, eventId, pipelineId, jobName) ==
    (pipelineId :> [eventId |-> eventId, jobs |-> (jobName :> buildId)])

JoinListNames(joinList) == [i \in DOMAIN joinList |-> joinList[i].name]

\* parseJobInfo; build is the finished build, joinList is joinObj[nextJobName]
parseJobInfo(joinList, currentJobName, pipelineId, build) ==
    LET joinListNames == JoinListNames(joinList)
        currentJobParentBuilds == build.parentBuilds
        joinParentBuilds == createParentBuildsObjJoin(pipelineId, joinListNames)
        currentBuildInfo ==
            createParentBuildsObj(build.id, build.eventId, pipelineId, currentJobName)
    IN  [parentBuilds |->
            deepmergeAll(<<joinParentBuilds, currentJobParentBuilds, currentBuildInfo>>),
         joinListNames |-> joinListNames,
         joinParentBuilds |-> joinParentBuilds,
         currentJobParentBuilds |-> currentJobParentBuilds,
         currentBuildInfo |-> currentBuildInfo]

\* the build id a provenance map records for a join member, Null when it has none
RecordedBuild(upstream, name, pipelineId) ==
    LET joinInfo == getPipelineAndJob(name, pipelineId)
    IN  IF /\ joinInfo.externalPipelineId \in DOMAIN upstream
           /\ joinInfo.externalJobName \in
                 DOMAIN upstream[joinInfo.externalPipelineId].jobs
        THEN upstream[joinInfo.externalPipelineId].jobs[joinInfo.externalJobName]
        ELSE Null

\* mutant: a member without a recorded build does not clear done
getParentBuildStatusSkipsUnrecorded(upstream, joinListNames, pipelineId, bs) ==
    LET ids == {RecordedBuild(upstream, joinListNames[i], pipelineId) :
                   i \in DOMAIN joinListNames} \ {Null}
    IN  IF \E b \in ids : bs[b].removed
        THEN [err |-> "TypeError", done |-> FALSE, hasFailure |-> FALSE]
        ELSE [err |-> "none",
              done |-> \A b \in ids : bs[b].status \in Finished,
              hasFailure |-> \E b \in ids : bs[b].status \in Failed]

\* mutant: an UNSTABLE member counts as a failure
getParentBuildStatusUnstableFails(upstream, joinListNames, pipelineId, bs) ==
    LET ids == {RecordedBuild(upstream, joinListNames[i], pipelineId) :
                   i \in DOMAIN joinListNames} \ {Null}
    IN  IF \E b \in ids : bs[b].removed
        THEN [err |-> "TypeError", done |-> FALSE, hasFailure |-> FALSE]
        ELSE [err |-> "none",
              done |-> /\ \A i \in DOMAIN joinListNames :
                             RecordedBuild(upstream, joinListNames[i], pipelineId) # Null
                       /\ \A b \in ids : bs[b].status \in Finished,
              hasFailure |-> \E b \in ids : bs[b].status \in Failed \cup {"UNSTABLE"}]

\* getParentBuildStatus over the stored builds bs; a recorded build that no longer
\* exists makes buildFactory.get return null and the status read throw
getParentBuildStatus(upstream, joinListNames, pipelineId, bs) ==
    LET ids == {RecordedBuild(upstream, joinListNames[i], pipelineId) :
                   i \in DOMAIN joinListNames} \ {Null}
    IN  IF \E b \in ids : bs[b].removed
        THEN [err |-> "TypeError", done |-> FALSE, hasFailure |-> FALSE]
        ELSE [err |-> "none",
              done |-> /\ \A i \in DOMAIN joinListNames :
                             RecordedBuild(upstream, joinListNames[i], pipelineId) # Null
                       /\ \A b \in ids : bs[b].status \in Finished,
              hasFailure |-> \E b \in ids : bs[b].status \in Failed]

\* ------------------------------------------------------------------ legacy join checks
isJoinDone(joinList, finishedBuilds) ==
    LET successBuilds == {b.jobId : b \in {x \in Range(finishedBuilds) : x.status = "SUCCESS"}}
        successBuildsInJoin == SelectSeq(joinList, LAMBDA j : j.id \in successBuilds)
    IN  Len(successBuildsInJoin) = Len(joinList)

\* mutant: only a FAILURE build of a member counts as a failure
noFailureSoFarIgnoresAborted(joinList, finishedBuilds) ==
    LET failedBuilds == {b.jobId : b \in {x \in Range(finishedBuilds) :
                                             x.status = "FAILURE"}}
        failedBuildsInJoin == SelectSeq(joinList, LAMBDA j : j.id \in failedBuilds)
    IN  Len(failedBuildsInJoin) = 0

noFailureSoFar(joinList, finishedBuilds) ==
    LET failedBuilds == {b.jobId : b \in {x \in Range(finishedBuilds) :
                                             x.status \in {"FAILURE", "ABORTED"}}}
        failedBuildsInJoin == SelectSeq(joinList, LAMBDA j : j.id \in failedBuilds)
    IN  Len(failedBuildsInJoin) = 0

successBuildsInJoinList(joinList, finishedBuilds) ==
    LET joinListJobIds == {joinList[i].id : i \in DOMAIN joinList}
    IN  SelectSeq(finishedBuilds,
                  LAMBDA b : b.status = "SUCCESS" /\ b.jobId \in joinListJobIds)

\* ------------------------------------------------------------------ workflows
Node(p, j) == [id |-> JobId(p, j), name |-> Bare(j)]
ExternalNode(p, j) == [id |-> NoId, name |-> Sd(p, j)]
Edge(s, d, j) == [src |-> s, dest |-> d, join |-> j]

Workflows == {"join", "fanout", "or", "externalJoin", "nested", "malformed", "qualified"}

\* the workflow graph of a pipeline: the snapshot every event of the pipeline carries
\*   join:          [A, B] -> C
\*   fanout:        D -> A, D -> sd@2:E
\*   or:            [~D, B, C] -> A
\*   externalJoin:  [A, B] -> sd@2:C
\*   nested:        A -> sd@2:X, [B, sd@2:X] -> C, and in pipeline 2 sd@1:A -> X -> sd@1:C
\*   malformed:     D -> A -> X, [X, B] -> C, the jobs A and C without a node
\*   qualified:     [sd@1:D] -> A, the join list names D of pipeline 1 by its
\*                  qualified name
\*   crossJoin:     nested, with the edge X -> sd@1:C of pipeline 2 marked as a join
\*                  edge: X reaches C through getNextBuild's external branch
WorkflowGraph(w, pipelineId) ==
    IF pipelineId = Pipeline
    THEN CASE w = "join" ->
                [nodes |-> <<Node(1, "A"), Node(1, "B"), Node(1, "C")>>,
                 edges |-> {Edge(Bare("A"), Bare("C"), TRUE),
                            Edge(Bare("B"), Bare("C"), TRUE)}]
           [] w = "fanout" ->
                [nodes |-> <<Node(1, "D"), Node(1, "A"), ExternalNode(2, "E")>>,
                 edges |-> {Edge(Bare("D"), Bare("A"), FALSE),
                            Edge(Bare("D"), Sd(2, "E"), FALSE)}]
           [] w = "or" ->
                [nodes |-> <<Node(1, "D"), Node(1, "B"), Node(1, "C"), Node(1, "A")>>,
                 edges |-> {Edge(Bare("D"), Bare("A"), FALSE),
                            Edge(Bare("B"), Bare("A"), TRUE),
                            Edge(Bare("C"), Bare("A"), TRUE)}]
           [] w = "nested" ->
                [nodes |-> <<Node(1, "A"), Node(1, "B"), Node(1, "C"),
                             ExternalNode(2, "X")>>,
                 edges |-> {Edge(Bare("A"), Sd(2, "X"), FALSE),
                            Edge(Bare("B"), Bare("C"), TRUE),
                            Edge(Sd(2, "X"), Bare("C"), TRUE)}]
           [] w = "crossJoin" ->
                [nodes |-> <<Node(1, "A"), Node(1, "B"), Node(1, "C"),
                             ExternalNode(2, "X")>>,
                 edges |-> {Edge(Bare("A"), Sd(2, "X"), FALSE),
                            Edge(Bare("B"), Bare("C"), TRUE),
                            Edge(Sd(2, "X"), Bare("C"), TRUE)}]
           [] w = "qualified" ->
                [nodes |-> <<Node(1, "D"), ExternalNode(1, "D"), Node(1, "A")>>,
                 edges |-> {Edge(Bare("D"), Bare("A"), FALSE),
                            Edge(Sd(1, "D"), Bare("A"), TRUE)}]
           [] w = "malformed" ->
                [nodes |-> <<Node(1, "D"), Node(1, "X"), Node(1, "B")>>,
                 edges |-> {Edge(Bare("D"), Bare("A"), FALSE),
                            Edge(Bare("A"), Bare("X"), FALSE),
                            Edge(Bare("X"), Bare("C"), TRUE),
                            Edge(Bare("B"), Bare("C"), TRUE)}]
           [] OTHER ->
                [nodes |-> <<Node(1, "A"), Node(1, "B"), ExternalNode(2, "C")>>,
                 edges |-> {Edge(Bare("A"), Sd(2, "C"), TRUE),
                            Edge(Bare("B"), Sd(2, "C"), TRUE)}]
    ELSE CASE w = "fanout" ->
                [nodes |-> <<ExternalNode(1, "D"), Node(2, "E")>>,
                 edges |-> {Edge(Sd(1, "D"), Bare("E"), FALSE)}]
           [] w = "externalJoin" ->
                [nodes |-> <<ExternalNode(1, "A"), ExternalNode(1, "B"), Node(2, "C")>>,
                 edges |-> {Edge(Sd(1, "A"), Bare("C"), TRUE),
                            Edge(Sd(1, "B"), Bare("C"), TRUE)}]
           [] w = "nested" ->
                [nodes |-> <<ExternalNode(1, "A"), Node(2, "X"), ExternalNode(1, "C")>>,
                 edges |-> {Edge(Sd(1, "A"), Bare("X"), FALSE),
                            Edge(Bare("X"), Sd(1, "C"), FALSE)}]
           [] w = "crossJoin" ->
                [nodes |-> <<ExternalNode(1, "A"), Node(2, "X"), ExternalNode(1, "C")>>,
                 edges |-> {Edge(Sd(1, "A"), Bare("X"), FALSE),
                            Edge(Bare("X"), Sd(1, "C"), TRUE)}]
           [] OTHER -> [nodes |-> <<>>, edges |-> {}]

\* jobs of a pipeline that the workflow graph of its events has no node for
JobsWithoutNode(w, pipelineId) ==
    IF w = "malformed" /\ pipelineId = Pipeline THEN {"A", "C"} ELSE {}

\* the jobs of a pipeline (jobFactory): the nodes of its graph that carry an id, and
\* the jobs without a node
JobExists(w, pipelineId, jobName) ==
    \/ \E i \in DOMAIN WorkflowGraph(w, pipelineId).nodes :
          WorkflowGraph(w, pipelineId).nodes[i].id = JobId(pipelineId, jobName)
    \/ jobName \in JobsWithoutNode(w, pipelineId)

\* the jobs started when an event of Pipeline is opened by a commit: those with no
\* edge into them
RootJobs(w) ==
    LET g == WorkflowGraph(w, Pipeline)
    IN  SelectSeq(g.nodes, LAMBDA n : n.id # NoId /\ ~\E e \in g.edges : e.dest = n.name)

\* the job that may be DISABLED in a workflow: the one its edges lead to
Target(w) ==
    CASE w = "join" -> JobId(1, "C")
      [] w = "fanout" -> JobId(1, "A")
      [] w = "or" -> JobId(1, "A")
      [] w = "nested" -> JobId(1, "C")
      [] w = "crossJoin" -> JobId(1, "C")
      [] w = "malformed" -> JobId(1, "A")
      [] w = "qualified" -> JobId(1, "A")
      [] OTHER -> JobId(2, "C")

\* ------------------------------------------------------------------ stored entities
NoParentBuilds == [has |-> FALSE, val |-> <<>>]
SomeParentBuilds(pb) == [has |-> TRUE, val |-> pb]

BuildRecord(id, jobId, eventId, start, parentBuilds, parentBuildId) ==
    [id |-> id, jobId |-> jobId, eventId |-> eventId,
     status |-> IF start THEN "QUEUED" ELSE "CREATED",
     parentBuilds |-> parentBuilds, parentBuildId |-> parentBuildId,
     removed |-> FALSE, starts |-> IF start THEN 1 ELSE 0]

NoBuild == [id |-> Null, jobId |-> NoId, eventId |-> Null, status |-> "",
            parentBuilds |-> <<>>, parentBuildId |-> <<>>,
            removed |-> FALSE, starts |-> 0]

EventRecord(id, pipelineId, startFrom, parentBuildId, parentBuilds, parentEventId) ==
    [id |-> id, pipelineId |-> pipelineId, startFrom |-> startFrom,
     parentBuildId |-> parentBuildId, parentBuilds |-> parentBuilds,
     parentEventId |-> parentEventId, removed |-> FALSE]

Reverse(s) == [i \in DOMAIN s |-> s[Len(s) + 1 - i]]

\* event.getBuilds(): the stored builds of the event, the latest first
getBuilds(bs, eventId) ==
    Reverse(SelectSeq(bs, LAMBDA b : b.eventId = eventId /\ ~b.removed))

\* job.getLatestBuild({ status: 'CREATED' }), NoBuild when there is none
getLatestBuild(bs, jobId) ==
    LET found == SelectSeq(bs, LAMBDA b : b.jobId = jobId /\ ~b.removed
                                           /\ b.status = "CREATED")
    IN  IF found = <<>> THEN NoBuild ELSE found[Len(found)]

JobState(jobId) == IF jobId = disabledJob THEN "DISABLED" ELSE "ENABLED"

\* ------------------------------------------------------------------ build lifecycle
\* jobFactory.get({ name, pipelineId }) finds a job only under a bare name
JobFound(pipelineId, jobName) ==
    ~isExternalTrigger(jobName) /\ JobExists(workflow, pipelineId, jobName.job)

\* createBuild (legacy): no parentBuilds, parentBuildId is the finished build's id
\* mutant: the build is created without being started
createBuildUnstarted(bs, pipelineId, jobName, build, start) ==
    IF ~JobFound(pipelineId, jobName)
    THEN [err |-> "TypeError", bs |-> bs, id |-> Null]
    ELSE IF JobState(JobId(pipelineId, jobName.job)) = "ENABLED"
    THEN [err |-> "none",
          bs |-> Append(bs, BuildRecord(Len(bs) + 1, JobId(pipelineId, jobName.job),
                                        build.eventId, FALSE, <<>>, <<build.id>>)),
          id |-> Len(bs) + 1]
    ELSE [err |-> "none", bs |-> bs, id |-> Null]

createBuild(bs, pipelineId, jobName, build, start) ==
    IF ~JobFound(pipelineId, jobName)
    THEN [err |-> "TypeError", bs |-> bs, id |-> Null]
    ELSE IF JobState(JobId(pipelineId, jobName.job)) = "ENABLED"
    THEN [err |-> "none",
          bs |-> Append(bs, BuildRecord(Len(bs) + 1, JobId(pipelineId, jobName.job),
                                        build.eventId, start, <<>>, <<build.id>>)),
          id |-> Len(bs) + 1]
    ELSE [err |-> "none", bs |-> bs, id |-> Null]

\* mutant: the build is started whatever start says
createInternalBuildAlwaysStarts(bs, pipelineId, jobName, build, parentBuilds, start, parentBuildId) ==
    IF ~JobFound(pipelineId, jobName)
    THEN [err |-> "TypeError", bs |-> bs, id |-> Null]
    ELSE IF JobState(JobId(pipelineId, jobName.job)) = "ENABLED"
    THEN [err |-> "none",
          bs |-> Append(bs, BuildRecord(Len(bs) + 1, JobId(pipelineId, jobName.job),
                                        build.eventId, TRUE, parentBuilds,
                                        <<IF parentBuildId # Null THEN parentBuildId
                                          ELSE build.id>>)),
          id |-> Len(bs) + 1]
    ELSE [err |-> "none", bs |-> bs, id |-> Null]

createInternalBuild(bs, pipelineId, jobName, build, parentBuilds, start, parentBuildId) ==
    IF ~JobFound(pipelineId, jobName)
    THEN [err |-> "TypeError", bs |-> bs, id |-> Null]
    ELSE IF JobState(JobId(pipelineId, jobName.job)) = "ENABLED"
    THEN [err |-> "none",
          bs |-> Append(bs, BuildRecord(Len(bs) + 1, JobId(pipelineId, jobName.job),
                                        build.eventId, start, parentBuilds,
                                        <<IF parentBuildId # Null THEN parentBuildId
                                          ELSE build.id>>)),
          id |-> Len(bs) + 1]
    ELSE [err |-> "none", bs |-> bs, id |-> Null]

\* eventFactory.create(payload): the event, and the build of its startFrom job, which
\* the factory starts: no payload of createEvent carries a start field
eventFactoryCreate(es, bs, payload) ==
    LET id == Len(es) + 1
        jobId == JobId(payload.pipelineId, payload.startFrom)
        makes == /\ JobExists(workflow, payload.pipelineId, payload.startFrom)
                 /\ JobState(jobId) = "ENABLED"
    IN  [es |-> Append(es, EventRecord(id, payload.pipelineId, Bare(payload.startFrom),
                                       payload.parentBuildId, payload.parentBuilds,
                                       payload.parentEventId)),
         bs |-> IF makes
                THEN Append(bs, BuildRecord(Len(bs) + 1, jobId, id, TRUE,
                                            payload.parentBuilds.val,
                                            IF payload.parentBuildId = Null THEN <<>>
                                            ELSE <<payload.parentBuildId>>))
                ELSE bs,
         id |-> id]

\* createEvent: the payload it builds from its config; parentBuilds and parentEventId
\* are set only when given
createEvent(es, bs, pipelineId, startFrom, parentBuildId, parentBuilds, parentEventId) ==
    eventFactoryCreate(es, bs,
        [pipelineId |-> pipelineId, startFrom |-> startFrom,
         parentBuildId |-> parentBuildId, parentBuilds |-> parentBuilds,
         parentEventId |-> parentEventId])

\* mutant: the event is created without the id of the triggering build
createExternalBuildNoParent(es, bs, externalPipelineId, externalJobName, parentBuildId, parentBuilds, parentEventId, start) ==
    createEvent(es, bs, externalPipelineId, externalJobName, Null,
                SomeParentBuilds(parentBuilds), parentEventId)

\* createExternalBuild: config.start is not among the fields it hands to createEvent
createExternalBuild(es, bs, externalPipelineId, externalJobName, parentBuildId, parentBuilds, parentEventId, start) ==
    createEvent(es, bs, externalPipelineId, externalJobName, parentBuildId,
                SomeParentBuilds(parentBuilds), parentEventId)

\* mutant: the parent event's builds come before the event's own
VisibleBuildsParentFirst(es, bs, event) ==
    IF event.parentEventId = Null
    THEN [err |-> "none", builds |-> getBuilds(bs, event.id)]
    ELSE LET parentEvent == es[event.parentEventId]
             upstreamBuilds ==
                 removeDownstreamBuilds(getBuilds(bs, parentEvent.id), event.startFrom,
                                        WorkflowGraph(workflow, parentEvent.pipelineId))
         IN  IF upstreamBuilds.err # "none"
             THEN [err |-> upstreamBuilds.err, builds |-> <<>>]
             ELSE [err |-> "none",
                   builds |-> upstreamBuilds.builds \o getBuilds(bs, event.id)]

\* the builds an event sees: its own, then (for a rerun) the parent event's builds
\* that removeDownstreamBuilds keeps
VisibleBuilds(es, bs, event) ==
    IF event.parentEventId = Null
    THEN [err |-> "none", builds |-> getBuilds(bs, event.id)]
    ELSE LET parentEvent == es[event.parentEventId]
             upstreamBuilds ==
                 removeDownstreamBuilds(getBuilds(bs, parentEvent.id), event.startFrom,
                                        WorkflowGraph(workflow, parentEvent.pipelineId))
         IN  IF upstreamBuilds.err # "none"
             THEN [err |-> upstreamBuilds.err, builds |-> <<>>]
             ELSE [err |-> "none",
                   builds |-> getBuilds(bs, event.id) \o upstreamBuilds.builds]

FirstOfJob(list, jobId) ==
    IF FindBuild(list, jobId) = Null THEN NoBuild
    ELSE list[CHOOSE i \in DOMAIN list : list[i].id = FindBuild(list, jobId)]

\* getNextBuild: the latest CREATED build of an external job, or the visible build
\* of an internal job
getNextBuild(es, bs, isExternal, externalPipelineId, externalJobName, event, workflowGraph, nextJobName) ==
    IF isExternal
    THEN IF ~JobExists(workflow, externalPipelineId, externalJobName)
         THEN [err |-> "TypeError", nextBuild |-> NoBuild, finishedBuilds |-> <<>>]
         ELSE [err |-> "none",
               nextBuild |-> getLatestBuild(bs, JobId(externalPipelineId, externalJobName)),
               finishedBuilds |-> <<>>]
    ELSE LET finishedInternalBuilds == VisibleBuilds(es, bs, event)
         IN  IF finishedInternalBuilds.err # "none"
             THEN [err |-> finishedInternalBuilds.err, nextBuild |-> NoBuild,
                   finishedBuilds |-> <<>>]
             ELSE IF ~HasNode(workflowGraph, trimJobName(nextJobName))
             THEN [err |-> "TypeError", nextBuild |-> NoBuild, finishedBuilds |-> <<>>]
             ELSE [err |-> "none",
                   nextBuild |-> FirstOfJob(finishedInternalBuilds.builds,
                                    FindNode(workflowGraph, trimJobName(nextJobName)).id),
                   finishedBuilds |-> finishedInternalBuilds.builds]

\* mutant: the existing build's own parentBuilds is left out of the merge
updateParentBuildsDropsExisting(joinParentBuilds, currentJobParentBuilds, nextBuild, currentBuildInfo, build) ==
    [nextBuild EXCEPT
        !.parentBuilds = deepmergeAll(<<joinParentBuilds, currentJobParentBuilds,
                                        currentBuildInfo>>),
        !.parentBuildId = <<build.id>> \o nextBuild.parentBuildId]

\* updateParentBuilds: the fields it sets on nextBuild before nextBuild.update()
updateParentBuilds(joinParentBuilds, currentJobParentBuilds, nextBuild, currentBuildInfo, build) ==
    [nextBuild EXCEPT
        !.parentBuilds = deepmergeAll(<<joinParentBuilds, currentJobParentBuilds,
                                        nextBuild.parentBuilds, currentBuildInfo>>),
        !.parentBuildId = <<build.id>> \o nextBuild.parentBuildId]

\* mutant: a failed member does not keep the build from being queued
handleNewBuildIgnoresFailure(done, hasFailure) ==
    IF done THEN "queue" ELSE "nothing"

\* handleNewBuild: what it does to newBuild
handleNewBuild(done, hasFailure) ==
    IF done THEN (IF hasFailure THEN "remove" ELSE "queue") ELSE "nothing"

\* ------------------------------------------------------------------ tasks
\* One task per successor job of one triggerNextJobs call: the callback that
\* Promise.all runs for it. pc is the collaborator call it waits for; build is the
\* finished build the call was given; nextBuild and newBuild are its in-memory
\* copies (kind tells what newBuild holds: "none" for null, a "build" or an "event").
TaskRecord(call, build, nextJobName, pc) ==
    [call |-> call, build |-> build, nextJobName |-> nextJobName, pc |-> pc,
     finishedBuilds |-> <<>>, nextBuild |-> NoBuild, newBuild |-> NoBuild,
     kind |-> "none", done |-> FALSE, hasFailure |-> FALSE,
     ops |-> {}, ev |-> Null, cb |-> Null]

Settled == {"done", "error"}

NumCalls == Cardinality({tasks[i].call : i \in DOMAIN tasks})

RECURSIVE SeqOf(_)
SeqOf(S) == IF S = {} THEN <<>>
            ELSE LET x == CHOOSE y \in S : TRUE IN <<x>> \o SeqOf(S \ {x})

EventOf(t) == events[tasks[t].build.eventId]
PipelineIdOf(t) == EventOf(t).pipelineId
GraphOf(t) == WorkflowGraph(workflow, PipelineIdOf(t))
CurrentJobName(t) == tasks[t].build.jobId[2]
JoinList(t) == getSrcForJoin(GraphOf(t), tasks[t].nextJobName)
Info(t) == parseJobInfo(JoinList(t), CurrentJobName(t), PipelineIdOf(t), tasks[t].build)
External(t) == getPipelineAndJob(tasks[t].nextJobName, PipelineIdOf(t))

\* mutant: with externalJoin on the finished job is looked for in the join list
\* under its bare name only
FirstCallBareNameOnly(build, pipelineId, workflowGraph, nextJobName) ==
    LET joinListNames == Range(JoinListNames(getSrcForJoin(workflowGraph, nextJobName)))
        currentJobName == build.jobId[2]
    IN  IF ~externalJoin
        THEN IF joinListNames = {} \/ Bare(currentJobName) \notin joinListNames
             THEN "createBuild" ELSE "getBuilds"
        ELSE IF joinListNames = {} \/ Bare(currentJobName) \notin joinListNames
             THEN IF ~isExternalTrigger(nextJobName) THEN "createInternalBuild"
                  ELSE IF getPipelineAndJob(nextJobName, pipelineId).externalPipelineId
                             \in DOMAIN build.parentBuilds
                       THEN "nestedJoin" ELSE "createExternalBuild"
             ELSE "getNextBuild"

\* the branch of triggerNextJobs a successor takes, as the collaborator call it
\* makes first
FirstCall(build, pipelineId, workflowGraph, nextJobName) ==
    LET joinListNames == Range(JoinListNames(getSrcForJoin(workflowGraph, nextJobName)))
        currentJobName == build.jobId[2]
        currentJobNotInJoinList ==
            /\ Bare(currentJobName) \notin joinListNames
            /\ Sd(pipelineId, currentJobName) \notin joinListNames
    IN  IF ~externalJoin
        THEN IF joinListNames = {} \/ Bare(currentJobName) \notin joinListNames
             THEN "createBuild" ELSE "getBuilds"
        ELSE IF joinListNames = {} \/ currentJobNotInJoinList
             THEN IF ~isExternalTrigger(nextJobName) THEN "createInternalBuild"
                  ELSE IF getPipelineAndJob(nextJobName, pipelineId).externalPipelineId
                             \in DOMAIN build.parentBuilds
                       THEN "nestedJoin" ELSE "createExternalBuild"
             ELSE "getNextBuild"

\* the successor is handled on the nested external join branch
Nested(t) ==
    /\ externalJoin
    /\ FirstCall(tasks[t].build, PipelineIdOf(t), GraphOf(t), tasks[t].nextJobName)
          = "nestedJoin"

\* nested branch: the event the finished build's provenance records for the
\* successor's pipeline, Null when eventFactory.get finds none
ExternalEventId(t) ==
    LET externalEventId ==
            tasks[t].build.parentBuilds[External(t).externalPipelineId].eventId
    IN  IF externalEventId \in DOMAIN events THEN externalEventId ELSE Null

ParentWorkflowGraph(t) == WorkflowGraph(workflow, events[ExternalEventId(t)].pipelineId)

\* nested branch: externalParentBuilds
ExternalParentBuilds(t) ==
    createParentBuildsObj(tasks[t].build.id, EventOf(t).id, EventOf(t).pipelineId,
                          CurrentJobName(t))

\* nested branch: joinListForJoin is joinObjForJoin[externalJobName], undefined when
\* the successor is not among the jobs the finished job triggers in the parent graph
HasJoinListForJoin(t) ==
    Bare(External(t).externalJobName)
        \in getNextJobs(ParentWorkflowGraph(t), Sd(PipelineIdOf(t), CurrentJobName(t)))

\* mutant: the nested branch evaluates the join list of the finished build's own
\* workflow graph
StatusJoinListNamesOfOwnGraph(t) ==
    Info(t).joinListNames

\* the join list and the pipeline id getParentBuildStatus is given
StatusJoinListNames(t) ==
    IF Nested(t)
    THEN JoinListNames(getSrcForJoin(ParentWorkflowGraph(t),
                                     Bare(External(t).externalJobName)))
    ELSE Info(t).joinListNames

StatusPipelineId(t) ==
    IF Nested(t) THEN External(t).externalPipelineId ELSE PipelineIdOf(t)

\* mutant: a callback that rejects rejects the pending callbacks of its call as well
SetRejectsSiblings(t, rec) ==
    tasks' = [i \in DOMAIN tasks |->
                IF i = t THEN rec
                ELSE IF /\ rec.pc = "error"
                        /\ tasks[i].call = rec.call
                        /\ tasks[i].pc \notin {"done", "error"}
                     THEN [tasks[i] EXCEPT !.pc = "error"]
                     ELSE tasks[i]]

Set(t, rec) == tasks' = [tasks EXCEPT ![t] = rec]
Fail(t) == [tasks[t] EXCEPT !.pc = "error"]

\* ------------------------------------------------------------------ environment
\* triggerEvent with no parentBuilds: with a parentEventId a partial rerun of a
\* Pipeline event from startFrom, without one an event of its own that starts there
triggerEvent(startFrom, parentEventId) ==
    /\ Len(events) < MaxEvents
    /\ Cardinality({e \in DOMAIN events : events[e].pipelineId = Pipeline}) <= MaxReruns
    /\ parentEventId # Null => events[parentEventId].pipelineId = Pipeline
    /\ JobExists(workflow, Pipeline, startFrom)
    /\ LET r == createEvent(events, builds, Pipeline, startFrom, Null,
                            NoParentBuilds, parentEventId)
       IN  events' = r.es /\ builds' = r.bs
    /\ UNCHANGED <<workflow, externalJoin, disabledJob, tasks, pure>>

\* ------------------------------------------------------------------ triggerNextJobs
\* the build b of a job that has successors ends with a finished status and
\* triggerNextJobs is called for it, or is called again for a build that has ended
triggerNextJobs(b, status) ==
    LET build == [builds[b] EXCEPT !.status = status]
        pipelineId == events[build.eventId].pipelineId
        workflowGraph == WorkflowGraph(workflow, pipelineId)
        nextJobs == SeqOf(getNextJobs(workflowGraph, Bare(build.jobId[2])))
    IN  /\ builds[b].status \in {"QUEUED", "RUNNING", status}
        /\ ~build.removed
        /\ NumCalls < MaxCallsOf(workflow)
        /\ nextJobs # <<>>
        /\ builds' = [builds EXCEPT ![b] = build]
        /\ tasks' = tasks \o
              [i \in DOMAIN nextJobs |->
                  TaskRecord(NumCalls + 1, build, nextJobs[i],
                             FirstCall(build, pipelineId, workflowGraph, nextJobs[i]))]
        /\ UNCHANGED <<workflow, externalJoin, disabledJob, events, pure>>

\* no join, internal successor: createInternalBuild with start left to its default
NoJoinInternalStep(t) ==
    /\ tasks[t].pc = "createInternalBuild"
    /\ LET r == createInternalBuild(builds, PipelineIdOf(t), tasks[t].nextJobName,
                                    tasks[t].build, Info(t).parentBuilds, TRUE, Null)
       IN  /\ builds' = r.bs
           /\ Set(t, [tasks[t] EXCEPT
                        !.pc = IF r.err = "none" THEN "done" ELSE "error",
                        !.cb = r.id,
                        !.ops = IF r.id # Null THEN @ \cup {"create"} ELSE @])
    /\ UNCHANGED <<workflow, externalJoin, disabledJob, events, pure>>

\* no join, external successor, no provenance for its pipeline: a new event there
NoJoinExternalStep(t) ==
    /\ tasks[t].pc = "createExternalBuild"
    /\ Len(events) < MaxEvents
    /\ LET event == EventOf(t)
           r == createExternalBuild(events, builds, External(t).externalPipelineId,
                    External(t).externalJobName, tasks[t].build.id,
                    Info(t).parentBuilds,
                    IF event.parentEventId = Null THEN event.id ELSE Null, TRUE)
       IN  /\ events' = r.es
           /\ builds' = r.bs
           /\ Set(t, [tasks[t] EXCEPT !.pc = "done", !.ev = r.id,
                                       !.ops = @ \cup {"createEvent"}])
    /\ UNCHANGED <<workflow, externalJoin, disabledJob, pure>>

\* createOrRunNextBuild, CHECK WHETHER NEXT BUILD EXISTS
GetNextBuildStep(t) ==
    /\ tasks[t].pc = "getNextBuild"
    /\ LET r == getNextBuild(events, builds, isExternalTrigger(tasks[t].nextJobName),
                    External(t).externalPipelineId, External(t).externalJobName,
                    EventOf(t), GraphOf(t), tasks[t].nextJobName)
       IN  Set(t, [tasks[t] EXCEPT
                     !.pc = IF r.err # "none" THEN "error"
                            ELSE IF r.nextBuild = NoBuild THEN "createNextBuild"
                            ELSE "updateParentBuilds",
                     !.nextBuild = r.nextBuild,
                     !.finishedBuilds = r.finishedBuilds])
    /\ UNCHANGED <<workflow, externalJoin, disabledJob, builds, events, pure>>

\* createOrRunNextBuild, Create next build: start is false on both branches
CreateNextBuildStep(t) ==
    /\ tasks[t].pc = "createNextBuild"
    /\ IF isExternalTrigger(tasks[t].nextJobName)
       THEN /\ Len(events) < MaxEvents
            /\ LET r == createExternalBuild(events, builds,
                            External(t).externalPipelineId, External(t).externalJobName,
                            tasks[t].build.id, Info(t).parentBuilds, EventOf(t).id, FALSE)
               IN  /\ events' = r.es
                   /\ builds' = r.bs
                   /\ Set(t, [tasks[t] EXCEPT
                                !.pc = "getParentBuildStatus", !.ev = r.id,
                                !.kind = "event", !.finishedBuilds = <<>>,
                                !.newBuild = [NoBuild EXCEPT
                                    !.id = r.id, !.parentBuilds = Info(t).parentBuilds],
                                !.ops = @ \cup {"createEvent"}])
       ELSE /\ LET r == createInternalBuild(builds, PipelineIdOf(t),
                            tasks[t].nextJobName, tasks[t].build,
                            Info(t).parentBuilds, FALSE, Null)
               IN  /\ builds' = r.bs
                   /\ Set(t, [tasks[t] EXCEPT
                                !.pc = IF r.err = "none" THEN "getParentBuildStatus"
                                       ELSE "error",
                                !.cb = r.id, !.finishedBuilds = <<>>,
                                !.kind = IF r.id # Null THEN "build" ELSE "none",
                                !.newBuild = IF r.id # Null THEN r.bs[r.id] ELSE NoBuild,
                                !.ops = IF r.id # Null THEN @ \cup {"create"} ELSE @])
            /\ UNCHANGED events
    /\ UNCHANGED <<workflow, externalJoin, disabledJob, pure>>

\* createOrRunNextBuild, the next build exists: updateParentBuilds and its update()
UpdateParentBuildsStep(t) ==
    /\ tasks[t].pc = "updateParentBuilds"
    /\ LET nb == updateParentBuilds(Info(t).joinParentBuilds,
                     Info(t).currentJobParentBuilds, tasks[t].nextBuild,
                     Info(t).currentBuildInfo, tasks[t].build)
       IN  IF builds[nb.id].removed
           THEN /\ Set(t, [Fail(t) EXCEPT !.finishedBuilds = <<>>])
                /\ UNCHANGED builds
           ELSE /\ builds' = [builds EXCEPT ![nb.id].parentBuilds = nb.parentBuilds,
                                            ![nb.id].parentBuildId = nb.parentBuildId]
                /\ Set(t, [tasks[t] EXCEPT
                             !.pc = "getParentBuildStatus", !.kind = "build",
                             !.newBuild = nb, !.finishedBuilds = <<>>,
                             !.ops = @ \cup {"update"}])
    /\ UNCHANGED <<workflow, externalJoin, disabledJob, events, pure>>

\* createOrRunNextBuild, CHECK IF ALL PARENTBUILDS OF NEW BUILD ARE DONE
GetParentBuildStatusStep(t) ==
    /\ tasks[t].pc = "getParentBuildStatus"
    /\ IF tasks[t].kind = "none" \/ (Nested(t) /\ ~HasJoinListForJoin(t))
       THEN Set(t, Fail(t))
       ELSE
       LET r == getParentBuildStatus(tasks[t].newBuild.parentBuilds,
                    StatusJoinListNames(t), StatusPipelineId(t), builds)
       IN  IF r.err # "none"
           THEN Set(t, Fail(t))
           ELSE Set(t, [tasks[t] EXCEPT
                          !.pc = "handleNewBuild", !.done = r.done,
                          !.hasFailure = r.hasFailure, !.ops = @ \cup {"status"}])
    /\ UNCHANGED <<workflow, externalJoin, disabledJob, builds, events, pure>>

\* mutant: a done join without failure starts the build without setting it QUEUED
HandleNewBuildStartsUnqueued(t) ==
    /\ tasks[t].pc = "handleNewBuild"
    /\ IF /\ handleNewBuild(tasks[t].done, tasks[t].hasFailure) = "queue"
          /\ tasks[t].kind = "build"
       THEN Set(t, [tasks[t] EXCEPT !.pc = "start", !.ops = @ \cup {"queue"}])
       ELSE Set(t, [tasks[t] EXCEPT !.pc = "done"])
    /\ UNCHANGED <<workflow, externalJoin, disabledJob, builds, events, pure>>

\* handleNewBuild: remove newBuild, or set it QUEUED and update() it, or nothing
HandleNewBuildStep(t) ==
    /\ tasks[t].pc = "handleNewBuild"
    /\ LET what == handleNewBuild(tasks[t].done, tasks[t].hasFailure)
           id == tasks[t].newBuild.id
       IN  CASE what = "nothing" ->
                  /\ Set(t, [tasks[t] EXCEPT !.pc = "done"])
                  /\ UNCHANGED <<builds, events>>
             [] what = "remove" /\ tasks[t].kind = "event" ->
                  /\ events' = [events EXCEPT ![id].removed = TRUE]
                  /\ Set(t, [tasks[t] EXCEPT !.pc = "done", !.ops = @ \cup {"remove"}])
                  /\ UNCHANGED builds
             [] what = "queue" /\ tasks[t].kind = "event" ->
                  \* an event has no start(): the update succeeds, the start throws
                  /\ Set(t, [Fail(t) EXCEPT !.ops = @ \cup {"queue"}])
                  /\ UNCHANGED <<builds, events>>
             [] what = "remove" /\ tasks[t].kind = "build" ->
                  IF builds[id].removed
                  THEN Set(t, Fail(t)) /\ UNCHANGED <<builds, events>>
                  ELSE /\ builds' = [builds EXCEPT ![id].removed = TRUE]
                       /\ Set(t, [tasks[t] EXCEPT !.pc = "done",
                                                   !.ops = @ \cup {"remove"}])
                       /\ UNCHANGED events
             [] OTHER ->
                  IF builds[id].removed
                  THEN Set(t, Fail(t)) /\ UNCHANGED <<builds, events>>
                  ELSE /\ builds' = [builds EXCEPT ![id].status = "QUEUED"]
                       /\ Set(t, [tasks[t] EXCEPT !.pc = "start",
                                                   !.ops = @ \cup {"queue"}])
                       /\ UNCHANGED events
    /\ UNCHANGED <<workflow, externalJoin, disabledJob, pure>>

\* queuedBuild.start() (handleNewBuild) and newBuild.start() (handleNextBuild)
StartStep(t) ==
    /\ tasks[t].pc = "start"
    /\ builds' = [builds EXCEPT ![tasks[t].newBuild.id].starts = @ + 1]
    /\ Set(t, [tasks[t] EXCEPT !.pc = "done", !.ops = @ \cup {"start"}])
    /\ UNCHANGED <<workflow, externalJoin, disabledJob, events, pure>>

\* ------------------------------------------------------------------ nested external join
\* the finished build carries provenance for the successor's pipeline: look for the
\* successor's build among the builds of the event that provenance records
NestedGetBuildsStep(t) ==
    /\ tasks[t].pc = "nestedJoin"
    /\ IF ExternalEventId(t) = Null
       THEN Set(t, Fail(t))
       ELSE LET externalJobName == Bare(External(t).externalJobName)
                finishedExternalBuilds == getBuilds(builds, ExternalEventId(t))
            IN  IF ~HasNode(ParentWorkflowGraph(t), trimJobName(externalJobName))
                THEN Set(t, Fail(t))
                ELSE LET jobId == FindNode(ParentWorkflowGraph(t),
                                           trimJobName(externalJobName)).id
                         nextBuild == FirstOfJob(finishedExternalBuilds, jobId)
                     IN  Set(t, [tasks[t] EXCEPT
                                   !.pc = IF nextBuild = NoBuild THEN "nestedCreate"
                                          ELSE "nestedUpdate",
                                   !.nextBuild = nextBuild,
                                   !.finishedBuilds = finishedExternalBuilds])
    /\ UNCHANGED <<workflow, externalJoin, disabledJob, builds, events, pure>>

\* nested branch, Create next build if doesn't exist: an internal build in the
\* recorded event, its provenance externalParentBuilds, not started
NestedCreateStep(t) ==
    /\ tasks[t].pc = "nestedCreate"
    /\ LET toCurrent == {e \in GraphOf(t).edges : e.dest = Bare(CurrentJobName(t))}
           recorded == tasks[t].build.parentBuilds[External(t).externalPipelineId].jobs
       IN  IF toCurrent = {}
           THEN Set(t, [Fail(t) EXCEPT !.finishedBuilds = <<>>]) /\ UNCHANGED builds
           ELSE \E edge \in toCurrent :
                  LET parentJobName == edge.src.job
                      parentBuildId == IF parentJobName \in DOMAIN recorded
                                       THEN recorded[parentJobName] ELSE Null
                  IN  IF parentBuildId = Null \/ builds[parentBuildId].removed
                      THEN /\ Set(t, [Fail(t) EXCEPT !.finishedBuilds = <<>>])
                           /\ UNCHANGED builds
                      ELSE LET r == createInternalBuild(builds,
                                        events[ExternalEventId(t)].pipelineId,
                                        Bare(External(t).externalJobName),
                                        builds[parentBuildId], ExternalParentBuilds(t),
                                        FALSE, tasks[t].build.id)
                           IN  /\ builds' = r.bs
                               /\ Set(t, [tasks[t] EXCEPT
                                     !.pc = IF r.err = "none" THEN "getParentBuildStatus"
                                            ELSE "error",
                                     !.cb = r.id, !.finishedBuilds = <<>>,
                                     !.kind = IF r.id # Null THEN "build" ELSE "none",
                                     !.newBuild = IF r.id # Null THEN r.bs[r.id]
                                                  ELSE NoBuild,
                                     !.ops = IF r.id # Null THEN @ \cup {"create"}
                                             ELSE @])
    /\ UNCHANGED <<workflow, externalJoin, disabledJob, events, pure>>

\* nested branch, If next build exists: updateParentBuilds with empty
\* joinParentBuilds and currentJobParentBuilds
NestedUpdateStep(t) ==
    /\ tasks[t].pc = "nestedUpdate"
    /\ LET nb == updateParentBuilds(<<>>, <<>>, tasks[t].nextBuild,
                                    ExternalParentBuilds(t), tasks[t].build)
       IN  IF builds[nb.id].removed
           THEN /\ Set(t, [Fail(t) EXCEPT !.finishedBuilds = <<>>])
                /\ UNCHANGED builds
           ELSE /\ builds' = [builds EXCEPT ![nb.id].parentBuilds = nb.parentBuilds,
                                            ![nb.id].parentBuildId = nb.parentBuildId]
                /\ Set(t, [tasks[t] EXCEPT
                             !.pc = "getParentBuildStatus", !.kind = "build",
                             !.newBuild = nb, !.finishedBuilds = <<>>,
                             !.ops = @ \cup {"update"}])
    /\ UNCHANGED <<workflow, externalJoin, disabledJob, events, pure>>

\* ------------------------------------------------------------------ legacy path
\* no join (externalJoin off): createBuild with start left to its default
LegacyCreateBuildStep(t) ==
    /\ tasks[t].pc = "createBuild"
    /\ LET r == createBuild(builds, PipelineIdOf(t), tasks[t].nextJobName,
                            tasks[t].build, TRUE)
       IN  /\ builds' = r.bs
           /\ Set(t, [tasks[t] EXCEPT
                        !.pc = IF r.err = "none" THEN "done" ELSE "error",
                        !.cb = r.id,
                        !.ops = IF r.id # Null THEN @ \cup {"create"} ELSE @])
    /\ UNCHANGED <<workflow, externalJoin, disabledJob, events, pure>>

\* join (externalJoin off): the finished builds handleNextBuild is given
LegacyGetBuildsStep(t) ==
    /\ tasks[t].pc = "getBuilds"
    /\ LET r == VisibleBuilds(events, builds, EventOf(t))
       IN  IF r.err # "none" \/ ~HasNode(GraphOf(t), trimJobName(tasks[t].nextJobName))
           THEN Set(t, Fail(t))
           ELSE Set(t, [tasks[t] EXCEPT !.pc = "handleNextBuild",
                                         !.finishedBuilds = r.builds])
    /\ UNCHANGED <<workflow, externalJoin, disabledJob, builds, events, pure>>

\* handleNextBuild, first step: what it does with the next build
handleNextBuild(joinList, finishedBuilds, jobId) ==
    LET noFailedBuilds == noFailureSoFar(joinList, finishedBuilds)
        nextBuild == FirstOfJob(finishedBuilds, jobId)
        successBuildsIds ==
            LET sb == successBuildsInJoinList(joinList, finishedBuilds)
            IN  [i \in DOMAIN sb |-> sb[i].id]
    IN  [what |-> IF ~noFailedBuilds
                  THEN (IF nextBuild # NoBuild THEN "remove" ELSE "nothing")
                  ELSE (IF nextBuild = NoBuild THEN "create" ELSE "update"),
         nextBuild |-> nextBuild,
         parentBuildId |-> successBuildsIds]

HandleNextBuildStep(t) ==
    /\ tasks[t].pc = "handleNextBuild"
    /\ LET jobId == FindNode(GraphOf(t), trimJobName(tasks[t].nextJobName)).id
           h == handleNextBuild(JoinList(t), tasks[t].finishedBuilds, jobId)
           id == h.nextBuild.id
           created == createBuild(builds, PipelineIdOf(t), tasks[t].nextJobName,
                                  tasks[t].build, FALSE)
       IN  CASE h.what = "nothing" ->
                  /\ Set(t, [tasks[t] EXCEPT !.pc = "isJoinDone"])
                  /\ UNCHANGED builds
             [] h.what = "remove" ->
                  IF builds[id].removed
                  THEN Set(t, Fail(t)) /\ UNCHANGED builds
                  ELSE /\ builds' = [builds EXCEPT ![id].removed = TRUE]
                       /\ Set(t, [tasks[t] EXCEPT !.pc = "isJoinDone",
                                     !.nextBuild = h.nextBuild,
                                     !.ops = @ \cup {"remove"}])
             [] h.what = "create" ->
                  /\ builds' = created.bs
                  /\ Set(t, [tasks[t] EXCEPT
                               !.pc = IF created.err = "none" THEN "isJoinDone"
                                      ELSE "error",
                               !.cb = created.id,
                               !.kind = IF created.id # Null THEN "build" ELSE "none",
                               !.newBuild = IF created.id # Null
                                            THEN created.bs[created.id] ELSE NoBuild,
                               !.ops = IF created.id # Null THEN @ \cup {"create"}
                                       ELSE @])
             [] OTHER ->
                  IF builds[id].removed
                  THEN Set(t, Fail(t)) /\ UNCHANGED builds
                  ELSE /\ builds' = [builds EXCEPT ![id].parentBuildId = h.parentBuildId]
                       /\ Set(t, [tasks[t] EXCEPT !.pc = "isJoinDone",
                                     !.nextBuild = h.nextBuild, !.kind = "build",
                                     !.newBuild = [h.nextBuild EXCEPT
                                                     !.parentBuildId = h.parentBuildId],
                                     !.ops = @ \cup {"update"}])
    /\ UNCHANGED <<workflow, externalJoin, disabledJob, events, pure>>

\* handleNextBuild, second step: when the join is done set the build QUEUED
HandleNextBuildThenStep(t) ==
    /\ tasks[t].pc = "isJoinDone"
    /\ LET done == isJoinDone(JoinList(t), tasks[t].finishedBuilds)
           id == tasks[t].newBuild.id
       IN  IF ~done
           THEN /\ Set(t, [tasks[t] EXCEPT !.pc = "done", !.finishedBuilds = <<>>,
                                            !.ops = @ \cup {"status"}])
                /\ UNCHANGED builds
           ELSE IF tasks[t].kind = "none" \/ builds[id].removed
           THEN /\ Set(t, [Fail(t) EXCEPT !.finishedBuilds = <<>>, !.done = TRUE,
                                          !.ops = @ \cup {"status"}])
                /\ UNCHANGED builds
           ELSE /\ builds' = [builds EXCEPT ![id].status = "QUEUED"]
                /\ Set(t, [tasks[t] EXCEPT !.pc = "start", !.done = TRUE,
                                            !.finishedBuilds = <<>>,
                                            !.ops = @ \cup {"status", "queue"}])
    /\ UNCHANGED <<workflow, externalJoin, disabledJob, events, pure>>

\* ------------------------------------------------------------------ specification
\* the startFrom names of a rerun: jobs of the workflow's graphs, and for the
\* graphs of one pipeline a name that may be in none
StartFromNames(w) ==
    IF w \in {"nested", "malformed"} THEN {"A", "B", "C", "X"} ELSE {"A", "B", "C", "D"}

Idle == [phase |-> "idle"]

\* the first event of Pipeline, opened by a commit, with its root jobs running
Init ==
    /\ workflow \in Workflows
    /\ externalJoin \in BOOLEAN
    /\ disabledJob \in {NoId, Target(workflow)}
    /\ events = <<EventRecord(1, Pipeline, Bare("~commit"), Null, NoParentBuilds, Null)>>
    /\ builds = [i \in DOMAIN RootJobs(workflow) |->
                    [BuildRecord(i, RootJobs(workflow)[i].id, 1, TRUE, <<>>, <<>>)
                        EXCEPT !.status = "RUNNING"]]
    /\ tasks = <<>>
    /\ pure = Idle

Quiet == \A i \in DOMAIN tasks : tasks[i].pc \in Settled

\* builds finish one after another: a call is made when the tasks of the calls
\* before it have settled
Next ==
    \/ \E b \in DOMAIN builds : \E status \in Finished :
          Quiet /\ triggerNextJobs(b, status)
    \/ \E e \in DOMAIN events : \E n \in StartFromNames(workflow) :
          Quiet /\ triggerEvent(n, e)
    \/ \E t \in DOMAIN tasks :
          \/ NoJoinInternalStep(t)
          \/ NoJoinExternalStep(t)
          \/ GetNextBuildStep(t)
          \/ CreateNextBuildStep(t)
          \/ UpdateParentBuildsStep(t)
          \/ GetParentBuildStatusStep(t)
          \/ HandleNewBuildStep(t)
          \/ StartStep(t)
          \/ NestedGetBuildsStep(t)
          \/ NestedCreateStep(t)
          \/ NestedUpdateStep(t)
          \/ LegacyCreateBuildStep(t)
          \/ LegacyGetBuildsStep(t)
          \/ HandleNextBuildStep(t)
          \/ HandleNextBuildThenStep(t)

Spec == Init /\ [][Next]_vars

\* builds finish at any time: the tasks of several calls interleave
NextConcurrent ==
    \/ \E b \in DOMAIN builds : \E status \in Finished : triggerNextJobs(b, status)
    \/ \E e \in DOMAIN events : \E n \in StartFromNames(workflow) : triggerEvent(n, e)
    \/ \E t \in DOMAIN tasks :
          \/ NoJoinInternalStep(t)
          \/ NoJoinExternalStep(t)
          \/ GetNextBuildStep(t)
          \/ CreateNextBuildStep(t)
          \/ UpdateParentBuildsStep(t)
          \/ GetParentBuildStatusStep(t)
          \/ HandleNewBuildStep(t)
          \/ StartStep(t)
          \/ LegacyCreateBuildStep(t)
          \/ LegacyGetBuildsStep(t)
          \/ HandleNextBuildStep(t)
          \/ HandleNextBuildThenStep(t)

\* the interleavings are explored on the well-formed workflows whose successors do
\* not take the nested external join branch
InitConcurrent == Init /\ workflow \notin {"nested", "malformed"}

SpecConcurrent == InitConcurrent /\ [][NextConcurrent]_vars

\* an external join whose target also waits for a job of its own pipeline: the
\* crossJoin workflow with the externalJoin flag on and every job enabled
InitCrossJoin ==
    /\ workflow = "crossJoin"
    /\ externalJoin = TRUE
    /\ disabledJob = NoId
    /\ events = <<EventRecord(1, Pipeline, Bare("~commit"), Null, NoParentBuilds, Null)>>
    /\ builds = [i \in DOMAIN RootJobs(workflow) |->
                    [BuildRecord(i, RootJobs(workflow)[i].id, 1, TRUE, <<>>, <<>>)
                        EXCEPT !.status = "RUNNING"]]
    /\ tasks = <<>>
    /\ pure = Idle

\* the steps the callbacks of this workflow pass through; an event is also started
\* from a job without a parent event
NextCrossJoin ==
    \/ \E b \in DOMAIN builds : \E status \in Finished :
          Quiet /\ triggerNextJobs(b, status)
    \/ \E e \in DOMAIN events \cup {Null} : \E n \in StartFromNames(workflow) :
          Quiet /\ triggerEvent(n, e)
    \/ \E t \in DOMAIN tasks :
          \/ NoJoinExternalStep(t)
          \/ GetNextBuildStep(t)
          \/ CreateNextBuildStep(t)
          \/ UpdateParentBuildsStep(t)
          \/ GetParentBuildStatusStep(t)
          \/ HandleNewBuildStep(t)
          \/ StartStep(t)

SpecCrossJoin == InitCrossJoin /\ [][NextCrossJoin]_vars

\* ------------------------------------------------------------------ rerun resolver alone
\* removeDownstreamBuilds applied to every acyclic workflow graph over MaxJobs jobs
\* (edges lead from a job to a later one), every parent event build list with at
\* most one build per job, and every startFrom job.
JobNames == <<"A", "B", "C", "D", "E", "F">>

RerunGraphs ==
    {[nodes |-> [i \in 1..MaxJobs |-> Node(Pipeline, JobNames[i])],
      edges |-> {Edge(Bare(JobNames[p[1]]), Bare(JobNames[p[2]]), FALSE) : p \in ps}] :
        ps \in SUBSET {p \in (1..MaxJobs) \X (1..MaxJobs) : p[1] < p[2]}}

RerunLists ==
    {SelectSeq([i \in 1..MaxJobs |-> [id |-> i, jobId |-> JobId(Pipeline, JobNames[i])]],
               LAMBDA b : b.id \in S) : S \in SUBSET (1..MaxJobs)}

InitRerun ==
    /\ workflow = "join"
    /\ externalJoin = TRUE
    /\ disabledJob = NoId
    /\ events = <<>>
    /\ builds = <<>>
    /\ tasks = <<>>
    /\ pure \in [phase : {"input"}, workflowGraph : RerunGraphs, builds : RerunLists,
                 startFrom : {Bare(JobNames[i]) : i \in 1..MaxJobs},
                 out : {[err |-> "none", builds |-> <<>>]}]

RemoveDownstreamBuildsStep ==
    /\ pure.phase = "input"
    /\ pure' = [pure EXCEPT
                  !.phase = "output",
                  !.out = removeDownstreamBuilds(pure.builds, pure.startFrom,
                                                 pure.workflowGraph)]
    /\ UNCHANGED <<workflow, externalJoin, disabledJob, builds, events, tasks>>

NextRerun == RemoveDownstreamBuildsStep

SpecRerun == InitRerun /\ [][NextRerun]_vars

\* removeDownstreamBuilds applied to every workflow graph over MaxCycleJobs jobs,
\* cycles and edges from a job to itself included
CyclicGraphs ==
    {[nodes |-> [i \in 1..MaxCycleJobs |-> Node(Pipeline, JobNames[i])],
      edges |-> {Edge(Bare(JobNames[p[1]]), Bare(JobNames[p[2]]), FALSE) : p \in ps}] :
        ps \in SUBSET ((1..MaxCycleJobs) \X (1..MaxCycleJobs))}

CyclicLists ==
    {SelectSeq([i \in 1..MaxCycleJobs |->
                   [id |-> i, jobId |-> JobId(Pipeline, JobNames[i])]],
               LAMBDA b : b.id \in S) : S \in SUBSET (1..MaxCycleJobs)}

InitRerunCyclic ==
    /\ workflow = "join"
    /\ externalJoin = TRUE
    /\ disabledJob = NoId
    /\ events = <<>>
    /\ builds = <<>>
    /\ tasks = <<>>
    /\ pure \in [phase : {"input"}, workflowGraph : CyclicGraphs, builds : CyclicLists,
                 startFrom : {Bare(JobNames[i]) : i \in 1..MaxCycleJobs},
                 out : {[err |-> "none", builds |-> <<>>]}]

SpecRerunCyclic == InitRerunCyclic /\ [][NextRerun]_vars

\* the names reachable from the names of S along the edges, S included
RECURSIVE Closure(_, _)
Closure(workflowGraph, S) ==
    LET more == S \cup {e.dest : e \in {x \in workflowGraph.edges : x.src \in S}}
    IN  IF more = S THEN S ELSE Closure(workflowGraph, more)

\* the job ids of startFrom and of every job reachable from it
Downstream(workflowGraph, startFrom) ==
    {JobId(Pipeline, n.job) : n \in Closure(workflowGraph, {startFrom})}

Resolved == pure.phase = "output" /\ pure.out.err = "none"

\* C7: the result of removeDownstreamBuilds holds no build of startFrom nor of a
\* job reachable from startFrom, whether or not the jobs between have a build.
C7_NoDownstreamBuildKept ==
    Resolved =>
        \A b \in Range(pure.out.builds) :
            b.jobId \notin Downstream(pure.workflowGraph, pure.startFrom)

\* C8: removeDownstreamBuilds keeps every build of the list whose job is not
\* reachable from startFrom, and returns only builds of the list.
C8_UpstreamBuildsKept ==
    Resolved =>
        /\ \A b \in Range(pure.builds) :
              b.jobId \notin Downstream(pure.workflowGraph, pure.startFrom)
                  => b \in Range(pure.out.builds)
        /\ Range(pure.out.builds) \subseteq Range(pure.builds)

\* C8 witness: a result that keeps an upstream build and a sibling build, and
\* drops the builds of startFrom and of a job behind it
C8_Witness ==
    /\ Resolved
    /\ pure.startFrom = Bare("B")
    /\ Edge(Bare("A"), Bare("B"), FALSE) \in pure.workflowGraph.edges
    /\ Edge(Bare("B"), Bare("D"), FALSE) \in pure.workflowGraph.edges
    /\ Edge(Bare("A"), Bare("C"), FALSE) \in pure.workflowGraph.edges
    /\ Cardinality(pure.workflowGraph.edges) = 3
    /\ Len(pure.builds) = 4
    /\ {b.id : b \in Range(pure.out.builds)} = {1, 3}

\* ------------------------------------------------------------------ join safety
\* the join list of a stored build's job, in the graph of the build's pipeline
JoinNamesOf(es, b) ==
    JoinListNames(getSrcForJoin(WorkflowGraph(workflow, es[b.eventId].pipelineId),
                                Bare(b.jobId[2])))

\* every name of the join list has a build id in the provenance map pb, and that
\* build has ended
MembersFinished(bs, pb, names, pipelineId) ==
    \A i \in DOMAIN names :
        LET joinInfo == getPipelineAndJob(names[i], pipelineId)
        IN  /\ joinInfo.externalPipelineId \in DOMAIN pb
            /\ joinInfo.externalJobName \in DOMAIN pb[joinInfo.externalPipelineId].jobs
            /\ pb[joinInfo.externalPipelineId].jobs[joinInfo.externalJobName] # Null
            /\ bs[pb[joinInfo.externalPipelineId].jobs[joinInfo.externalJobName]].status
                  \in Finished

\* some name of the join list has a recorded build that failed
MemberFailed(bs, pb, names, pipelineId) ==
    \E i \in DOMAIN names :
        LET joinInfo == getPipelineAndJob(names[i], pipelineId)
        IN  /\ joinInfo.externalPipelineId \in DOMAIN pb
            /\ joinInfo.externalJobName \in DOMAIN pb[joinInfo.externalPipelineId].jobs
            /\ pb[joinInfo.externalPipelineId].jobs[joinInfo.externalJobName] # Null
            /\ bs[pb[joinInfo.externalPipelineId].jobs[joinInfo.externalJobName]].status
                  \in Failed

\* a step of a triggerNextJobs task starts build b or sets it QUEUED
StartedByTask(b) ==
    /\ tasks' # tasks
    /\ IF b \in DOMAIN builds
       THEN \/ builds'[b].starts > builds[b].starts
            \/ builds'[b].status = "QUEUED" /\ builds[b].status # "QUEUED"
       ELSE builds'[b].starts > 0 \/ builds'[b].status = "QUEUED"

Promotes(t) ==
    /\ externalJoin
    /\ t \in DOMAIN tasks
    /\ tasks[t].pc \in {"handleNewBuild", "start"}
    /\ tasks'[t].ops \cap {"queue", "start"} # tasks[t].ops \cap {"queue", "start"}

C2_FailedJoinRemoved ==
    externalJoin =>
        \A t \in DOMAIN tasks :
            (/\ tasks[t].pc \in {"done", "error", "start"}
             /\ "status" \in tasks[t].ops
             /\ tasks[t].kind # "none"
             /\ MembersFinished(builds, tasks[t].newBuild.parentBuilds,
                                StatusJoinListNames(t), StatusPipelineId(t))
             /\ MemberFailed(builds, tasks[t].newBuild.parentBuilds,
                             StatusJoinListNames(t), StatusPipelineId(t)))
            => /\ tasks[t].pc = "done"
               /\ "remove" \in tasks[t].ops
               /\ tasks[t].ops \cap {"queue", "start"} = {}
               /\ IF tasks[t].kind = "build"
                  THEN builds[tasks[t].newBuild.id].removed
                  ELSE events[tasks[t].newBuild.id].removed

\* C2 witness: A,B -> C, A ended SUCCESS and its call created C, B ended FAILURE
\* and its call removed C
C2_Witness ==
    /\ workflow = "join" /\ externalJoin
    /\ Len(tasks) = 2
    /\ tasks[1].build.jobId = JobId(1, "A") /\ tasks[1].build.status = "SUCCESS"
    /\ tasks[1].ops = {"create", "status"}
    /\ tasks[2].build.jobId = JobId(1, "B") /\ tasks[2].build.status = "FAILURE"
    /\ tasks[2].pc = "done"
    /\ tasks[2].ops = {"update", "status", "remove"}
    /\ builds[tasks[1].cb].removed

\* C3: A,B -> C, both members end SUCCESS one after the other: the call for the
\* first creates C without starting it, the call for the second sets C QUEUED and
\* starts it, and C is started once.
C3_JoinStartedByLastMember ==
    (workflow = "join" /\ disabledJob = NoId /\ Len(events) = 1) =>
        /\ (/\ Len(tasks) >= 1
            /\ tasks[1].pc \in Settled
            /\ tasks[1].build.status = "SUCCESS")
           => /\ tasks[1].pc = "done"
              /\ "create" \in tasks[1].ops
              /\ tasks[1].ops \cap {"queue", "start", "remove"} = {}
              /\ builds[tasks[1].cb].jobId = JobId(1, "C")
              /\ (Len(tasks) = 1 \/ (Len(tasks) = 2 /\ "queue" \notin tasks[2].ops))
                    => /\ builds[tasks[1].cb].status = "CREATED"
                       /\ builds[tasks[1].cb].starts = 0
        /\ (/\ Len(tasks) = 2
            /\ tasks[2].pc \in Settled
            /\ tasks[1].build.status = "SUCCESS"
            /\ tasks[2].build.status = "SUCCESS"
            /\ tasks[1].build.id # tasks[2].build.id)
           => /\ tasks[2].pc = "done"
              /\ {"queue", "start"} \subseteq tasks[2].ops
              /\ "create" \notin tasks[2].ops
              /\ Cardinality({b \in DOMAIN builds : builds[b].jobId = JobId(1, "C")}) = 1
              /\ builds[tasks[1].cb].status = "QUEUED"
              /\ builds[tasks[1].cb].starts = 1
              /\ ~builds[tasks[1].cb].removed

\* C3 witness: B ended first, A second, and C runs
C3_Witness ==
    /\ workflow = "join" /\ disabledJob = NoId /\ Len(events) = 1
    /\ Len(tasks) = 2
    /\ tasks[1].build.jobId = JobId(1, "B") /\ tasks[1].build.status = "SUCCESS"
    /\ tasks[2].build.jobId = JobId(1, "A") /\ tasks[2].build.status = "SUCCESS"
    /\ tasks[2].pc = "done"
    /\ builds[tasks[1].cb].starts = 1

\* ------------------------------------------------------------------ interleaved calls
\* C4: A,B -> C with externalJoin on, the calls for A and for B interleaved in any
\* way: when both have returned with A and B SUCCESS, one build of C has been
\* started, once, and its parentBuilds records the builds of A and of B.
C4_StartedOnceUnderInterleaving ==
    (/\ workflow = "join" /\ externalJoin /\ disabledJob = NoId /\ Len(events) = 1
     /\ Len(tasks) = 2
     /\ tasks[1].pc \in Settled /\ tasks[2].pc \in Settled
     /\ tasks[1].build.status = "SUCCESS" /\ tasks[2].build.status = "SUCCESS"
     /\ tasks[1].build.id # tasks[2].build.id)
    => \E c \in DOMAIN builds :
          /\ builds[c].jobId = JobId(1, "C")
          /\ builds[c].starts = 1
          /\ 1 \in DOMAIN builds[c].parentBuilds
          /\ DOMAIN builds[c].parentBuilds[1].jobs = {"A", "B"}
          /\ {builds[c].parentBuilds[1].jobs["A"], builds[c].parentBuilds[1].jobs["B"]}
                = {tasks[1].build.id, tasks[2].build.id}
          /\ \A d \in DOMAIN builds :
                (builds[d].jobId = JobId(1, "C") /\ d # c) => builds[d].starts = 0

\* ------------------------------------------------------------------ no join
\* the first step task t takes
FirstStep(t) == tasks[t].pc \notin Settled /\ tasks'[t] # tasks[t]

\* the successor is internal and the finished job is not in its join list (with
\* externalJoin on, under neither of its names)
NoJoinInternal(t) ==
    /\ ~isExternalTrigger(tasks[t].nextJobName)
    /\ Bare(CurrentJobName(t)) \notin Range(JoinListNames(JoinList(t)))
    /\ externalJoin =>
          Sd(PipelineIdOf(t), CurrentJobName(t)) \notin Range(JoinListNames(JoinList(t)))

NoJoinExternal(t) ==
    /\ isExternalTrigger(tasks[t].nextJobName)
    /\ Bare(CurrentJobName(t)) \notin Range(JoinListNames(JoinList(t)))
    /\ Sd(PipelineIdOf(t), CurrentJobName(t)) \notin Range(JoinListNames(JoinList(t)))
    /\ tasks[t].nextJobName.pid \notin DOMAIN tasks[t].build.parentBuilds

\* C6: with externalJoin on, D -> sd@p:A, D not in A's join list and D's build
\* without provenance for p: the one step of the call creates one event in p with
\* startFrom A and parentBuildId D's build; it creates no build itself, changes
\* no build, and neither checks the join nor starts or removes anything.
C6_NoJoinExternalOpensEvent ==
    [][\A t \in DOMAIN tasks :
          (externalJoin /\ NoJoinExternal(t) /\ FirstStep(t))
          => /\ tasks'[t].pc = "done"
             /\ tasks'[t].ops = {"createEvent"}
             /\ Len(events') = Len(events) + 1
             /\ \A i \in DOMAIN events : events'[i] = events[i]
             /\ events'[Len(events')].pipelineId = tasks[t].nextJobName.pid
             /\ events'[Len(events')].startFrom = Bare(tasks[t].nextJobName.job)
             /\ events'[Len(events')].parentBuildId = tasks[t].build.id
             /\ \A i \in DOMAIN builds : builds'[i] = builds[i]
             /\ \A i \in DOMAIN builds' \ DOMAIN builds :
                   builds'[i].eventId = Len(events')]_vars

\* C6 witness: D -> sd@2:E, D ended and the event of pipeline 2 exists
C6_Witness ==
    /\ workflow = "fanout" /\ externalJoin
    /\ \E t \in DOMAIN tasks :
          /\ tasks[t].build.jobId = JobId(1, "D")
          /\ tasks[t].nextJobName = Sd(2, "E")
          /\ tasks[t].pc = "done"
          /\ tasks[t].ops = {"createEvent"}
          /\ events[tasks[t].ev].pipelineId = OtherPipeline
          /\ events[tasks[t].ev].startFrom = Bare("E")
          /\ events[tasks[t].ev].parentBuildId = tasks[t].build.id

\* ------------------------------------------------------------------ partial rerun of a join
\* C9: A,B -> C, A ended SUCCESS in the first event, a rerun from B is opened on it
\* and its build of B ends SUCCESS after that: when the call for it has returned, C
\* has a build in the rerun event and it has been started, with externalJoin on
\* and off.
C9_RerunCompletesJoin ==
    (workflow = "join" /\ disabledJob = NoId) =>
        \A t \in DOMAIN tasks :
            (/\ tasks[t].pc \in Settled
             /\ tasks[t].build.jobId = JobId(1, "B")
             /\ tasks[t].build.status = "SUCCESS"
             /\ EventOf(t).parentEventId = 1
             /\ EventOf(t).startFrom = Bare("B")
             /\ \E u \in 1..(t - 1) :
                   /\ tasks[u].build.jobId = JobId(1, "A")
                   /\ tasks[u].build.eventId = 1
                   /\ tasks[u].build.status = "SUCCESS")
            => \E c \in DOMAIN builds :
                  /\ builds[c].jobId = JobId(1, "C")
                  /\ builds[c].eventId = EventOf(t).id
                  /\ ~builds[c].removed
                  /\ builds[c].status = "QUEUED"
                  /\ builds[c].starts = 1

\* the task has just read the builds visible to its event
HasVisibleSet(t) ==
    \/ tasks[t].pc = "handleNextBuild"
    \/ /\ tasks[t].pc \in {"createNextBuild", "updateParentBuilds"}
       /\ ~isExternalTrigger(tasks[t].nextJobName)

\* C10: the visible set is the event's builds when the event has no parentEventId,
\* and otherwise the event's builds followed by what removeDownstreamBuilds keeps
\* of the parent event's builds; the build found for a job is the current
\* event's when there is one.
C10_VisibleSet ==
    \A t \in DOMAIN tasks :
        HasVisibleSet(t) =>
            LET event == EventOf(t)
                own == getBuilds(builds, event.id)
                visible == tasks[t].finishedBuilds
            IN  /\ event.parentEventId = Null => visible = own
                /\ event.parentEventId # Null =>
                      visible = own \o
                          removeDownstreamBuilds(
                              getBuilds(builds, event.parentEventId), event.startFrom,
                              WorkflowGraph(workflow,
                                  events[event.parentEventId].pipelineId)).builds
                /\ \A i \in DOMAIN own :
                      \A k \in DOMAIN visible :
                          (visible[k].jobId = own[i].jobId
                           /\ \A m \in 1..(k - 1) : visible[m].jobId # own[i].jobId)
                          => visible[k].eventId = event.id
                /\ tasks[t].pc = "updateParentBuilds" =>
                      \E k \in DOMAIN visible :
                          /\ visible[k] = tasks[t].nextBuild
                          /\ \A m \in 1..(k - 1) :
                                visible[m].jobId # tasks[t].nextBuild.jobId

\* C10 witness: in a rerun event the visible set holds a build of the event and,
\* behind it, a build of the parent event
C10_Witness ==
    \E t \in DOMAIN tasks :
        /\ HasVisibleSet(t)
        /\ EventOf(t).parentEventId # Null
        /\ Len(tasks[t].finishedBuilds) >= 2
        /\ tasks[t].finishedBuilds[1].eventId = EventOf(t).id
        /\ tasks[t].finishedBuilds[Len(tasks[t].finishedBuilds)].eventId
              = EventOf(t).parentEventId


\* ------------------------------------------------------------------ provenance of created builds
\* a step of task t creates a build through createInternalBuild
CreatesBuild(t) ==
    /\ t \in DOMAIN tasks
    /\ "create" \notin tasks[t].ops
    /\ "create" \in tasks'[t].ops
    /\ tasks'[t].kind = "build"

\* C11: with externalJoin on, the parentBuilds stored on a build that triggerNextJobs
\* creates is the deep merge, in this order, of the join member skeleton, the
\* finished build's own parentBuilds and the entry of the finished build; on every
\* creation path, the nested one included.
C11_CreatedProvenanceIsMerge ==
    [][\A t \in DOMAIN tasks' :
          (externalJoin /\ CreatesBuild(t)) =>
              builds'[tasks'[t].cb].parentBuilds =
                  deepmergeAll(<<createParentBuildsObjJoin(PipelineIdOf(t),
                                     JoinListNames(JoinList(t))),
                                 tasks[t].build.parentBuilds,
                                 createParentBuildsObj(tasks[t].build.id, EventOf(t).id,
                                     PipelineIdOf(t), CurrentJobName(t))>>)]_vars


\* ------------------------------------------------------------------ provenance functions
\* createParentBuildsObj, the merges of parseJobInfo and updateParentBuilds, and
\* getParentBuildStatus applied to every provenance map, join list and build status
\* within the bounds.
PartialMaps(keys, vals) == UNION {[d -> vals] : d \in SUBSET keys}

\* parentBuilds objects: pipelineId -> {eventId, jobs: jobName -> build id or null}
ProvenanceMaps(jobs, eventIds) ==
    PartialMaps(1..MaxPipelines,
                [eventId : eventIds, jobs : PartialMaps(jobs, {Null} \cup 1..MaxBuildId)])

MergeMaps == ProvenanceMaps({JobNames[i] : i \in 1..MaxMergeJobs}, {Null, 1})

\* the names a join list can hold: jobs of the pipeline and jobs of another one
MemberNames ==
    {Bare(JobNames[i]) : i \in 1..MaxMembers}
        \cup {Sd(OtherPipeline, JobNames[i]) : i \in 1..MaxMembers}

\* join lists: the source nodes of the join edges into a job, no name twice
JoinLists ==
    {l \in UNION {[1..n -> [name : MemberNames, id : {NoId}]] : n \in 0..MaxMembers} :
        \A i, k \in DOMAIN l : l[i] = l[k] => i = k}

BuildStatuses == {"RUNNING", "SUCCESS", "FAILURE", "ABORTED", "UNSTABLE", "COLLAPSED"}

\* the finished build of the call: build MaxBuildId of event 1, a job of Pipeline
FinishedBuilds ==
    {[BuildRecord(MaxBuildId, JobId(Pipeline, JobNames[1]), 1, TRUE, pb, <<>>)
         EXCEPT !.status = "SUCCESS"] : pb \in MergeMaps}

NoOutput == [err |-> "none"]

InitProvenance ==
    /\ workflow = "join"
    /\ externalJoin = TRUE
    /\ disabledJob = NoId
    /\ events = <<>>
    /\ builds = <<>>
    /\ tasks = <<>>
    /\ pure \in
         [phase : {"input"}, fn : {"createParentBuildsObj"}, joinList : JoinLists,
          out : {NoOutput}]
         \cup [phase : {"input"}, fn : {"deepmerge"},
               x : MergeMaps, y : MergeMaps, z : MergeMaps, out : {NoOutput}]
         \cup [phase : {"input"}, fn : {"parseJobInfo"}, joinList : JoinLists,
               build : FinishedBuilds, out : {NoOutput}]
         \cup [phase : {"input"}, fn : {"updateParentBuilds"}, joinList : JoinLists,
               build : FinishedBuilds,
               nextBuild : {BuildRecord(MaxBuildId + 1, JobId(Pipeline, "C"), 1, FALSE,
                                        pb, <<>>) : pb \in MergeMaps},
               out : {NoOutput}]
         \cup [phase : {"input"}, fn : {"getParentBuildStatus"}, joinList : JoinLists,
               upstream : ProvenanceMaps({JobNames[i] : i \in 1..MaxMembers}, {1}),
               builds : [1..MaxBuildId ->
                            {[BuildRecord(0, NoId, 1, TRUE, <<>>, <<>>)
                                 EXCEPT !.status = st] : st \in BuildStatuses}],
               out : {NoOutput}]

Apply(fn, out) ==
    /\ pure.phase = "input"
    /\ pure.fn = fn
    /\ pure' = [pure EXCEPT !.phase = "output", !.out = out]
    /\ UNCHANGED <<workflow, externalJoin, disabledJob, builds, events, tasks>>

ApplyCreateParentBuildsObj ==
    Apply("createParentBuildsObj",
          createParentBuildsObjJoin(Pipeline, JoinListNames(pure.joinList)))

\* deepmerge folded from the left and from the right, and a map merged with itself
ApplyDeepmerge ==
    Apply("deepmerge",
          [left |-> deepmerge(deepmerge(pure.x, pure.y), pure.z),
           right |-> deepmerge(pure.x, deepmerge(pure.y, pure.z)),
           all |-> deepmergeAll(<<pure.x, pure.y, pure.z>>),
           self |-> deepmerge(pure.x, pure.x)])

ApplyParseJobInfo ==
    Apply("parseJobInfo",
          parseJobInfo(pure.joinList, pure.build.jobId[2], Pipeline, pure.build))

ApplyUpdateParentBuilds ==
    LET info == parseJobInfo(pure.joinList, pure.build.jobId[2], Pipeline, pure.build)
    IN  Apply("updateParentBuilds",
              updateParentBuilds(info.joinParentBuilds, info.currentJobParentBuilds,
                                 pure.nextBuild, info.currentBuildInfo, pure.build))

ApplyGetParentBuildStatus ==
    Apply("getParentBuildStatus",
          getParentBuildStatus(pure.upstream, JoinListNames(pure.joinList), Pipeline,
                               pure.builds))

NextProvenance ==
    \/ ApplyCreateParentBuildsObj
    \/ ApplyDeepmerge
    \/ ApplyParseJobInfo
    \/ ApplyUpdateParentBuilds
    \/ ApplyGetParentBuildStatus

SpecProvenance == InitProvenance /\ [][NextProvenance]_vars

Applied(fn) == pure.phase = "output" /\ pure.fn = fn


\* every pipeline key and job key of the maps of inputs is a key of result
KeysKept(inputs, result) ==
    \A i \in DOMAIN inputs : \A p \in DOMAIN inputs[i] :
        /\ p \in DOMAIN result
        /\ DOMAIN inputs[i][p].jobs \subseteq DOMAIN result[p].jobs

\* an event id or build id that is not null in a map of inputs is not null in result
NonNullKept(inputs, result) ==
    \A i \in DOMAIN inputs : \A p \in DOMAIN inputs[i] \cap DOMAIN result :
        /\ inputs[i][p].eventId # Null => result[p].eventId # Null
        /\ \A j \in DOMAIN inputs[i][p].jobs \cap DOMAIN result[p].jobs :
              inputs[i][p].jobs[j] # Null => result[p].jobs[j] # Null

\* the maps updateParentBuilds merges for the drawn inputs
UpdateInputs ==
    LET info == parseJobInfo(pure.joinList, pure.build.jobId[2], Pipeline, pure.build)
    IN  <<info.joinParentBuilds, info.currentJobParentBuilds,
          pure.nextBuild.parentBuilds, info.currentBuildInfo>>

\* C12: the merges of parseJobInfo and updateParentBuilds drop no key present in an
\* input, and an event id or build id that is not null in some input is not null
\* in the result.
C12_MergeKeepsKeysAndIds ==
    /\ Applied("parseJobInfo") =>
          LET inputs == <<pure.out.joinParentBuilds, pure.out.currentJobParentBuilds,
                          pure.out.currentBuildInfo>>
          IN  /\ KeysKept(inputs, pure.out.parentBuilds)
              /\ NonNullKept(inputs, pure.out.parentBuilds)
    /\ Applied("updateParentBuilds") =>
          /\ KeysKept(UpdateInputs, pure.out.parentBuilds)
          /\ NonNullKept(UpdateInputs, pure.out.parentBuilds)


\* C13: createParentBuildsObj given joinListNames returns, for every member, an
\* entry under the member's pipeline with a null event id and a null build id under
\* the member's job name, also when members share a pipeline.
C13_SkeletonHoldsEveryMember ==
    Applied("createParentBuildsObj") =>
        \A i \in DOMAIN pure.joinList :
            LET joinInfo == getPipelineAndJob(pure.joinList[i].name, Pipeline)
            IN  /\ joinInfo.externalPipelineId \in DOMAIN pure.out
                /\ pure.out[joinInfo.externalPipelineId].eventId = Null
                /\ joinInfo.externalJobName
                      \in DOMAIN pure.out[joinInfo.externalPipelineId].jobs
                /\ pure.out[joinInfo.externalPipelineId].jobs[joinInfo.externalJobName]
                      = Null


\* C14: getParentBuildStatus returns done = true exactly when every member of the
\* join list has a build id recorded and each of these builds is FAILURE, SUCCESS,
\* ABORTED, UNSTABLE or COLLAPSED; hasFailure = true exactly when a recorded member
\* is FAILURE, ABORTED or COLLAPSED, whatever done is.
C14_StatusOfParentBuilds ==
    (Applied("getParentBuildStatus") /\ pure.out.err = "none") =>
        /\ pure.out.done <=> MembersFinished(pure.builds, pure.upstream,
                                 JoinListNames(pure.joinList), Pipeline)
        /\ pure.out.hasFailure <=> MemberFailed(pure.builds, pure.upstream,
                                       JoinListNames(pure.joinList), Pipeline)

\* C14 witness: of two members one is recorded and FAILURE, the other recorded and
\* still RUNNING: hasFailure without done
C14_Witness ==
    /\ Applied("getParentBuildStatus")
    /\ JoinListNames(pure.joinList) = <<Bare("A"), Sd(OtherPipeline, "B")>>
    /\ pure.upstream = (Pipeline :> [eventId |-> 1, jobs |-> ("A" :> 1)])
                          @@ (OtherPipeline :> [eventId |-> 1, jobs |-> ("B" :> 2)])
    /\ pure.builds[1].status = "FAILURE"
    /\ pure.builds[2].status = "RUNNING"
    /\ pure.out = [err |-> "none", done |-> FALSE, hasFailure |-> TRUE]


\* C18: the merge of provenance maps is associative and idempotent: merging three
\* maps from the left, from the right or with deepmerge.all gives one map, and a map
\* merged with itself is unchanged.
C18_MergeAssociativeIdempotent ==
    Applied("deepmerge") =>
        /\ pure.out.left = pure.out.right
        /\ pure.out.all = pure.out.left
        /\ pure.out.self = pure.x

\* C18 witness: three maps that overlap in a pipeline and a job with different
\* values, a null among them, merged
C18_Witness ==
    /\ Applied("deepmerge")
    /\ pure.x = (1 :> [eventId |-> 1, jobs |-> ("A" :> 1)])
    /\ pure.y = (1 :> [eventId |-> Null, jobs |-> ("A" :> Null)])
                   @@ (2 :> [eventId |-> 1, jobs |-> ("A" :> 2)])
    /\ pure.z = (2 :> [eventId |-> Null, jobs |-> <<>>])
    /\ pure.out.left = (1 :> [eventId |-> Null, jobs |-> ("A" :> Null)])
                          @@ (2 :> [eventId |-> Null, jobs |-> ("A" :> 2)])


\* ------------------------------------------------------------------ error handling
\* the successor of task t is the DISABLED job
DisabledSuccessor(t) ==
    /\ disabledJob # NoId
    /\ JobId(External(t).externalPipelineId, External(t).externalJobName) = disabledJob

\* C15: for a DISABLED successor job, in the no-join and in the join case, with
\* externalJoin on and off, the processing of the successor creates no build and
\* ends without an error.
C15_DisabledSuccessorIsSilent ==
    \A t \in DOMAIN tasks :
        (/\ DisabledSuccessor(t)
         /\ ~isExternalTrigger(tasks[t].nextJobName)
         /\ tasks[t].pc \in Settled)
        => /\ tasks[t].pc = "done"
           /\ tasks[t].ops \subseteq {"status"}
           /\ \A b \in DOMAIN builds : builds[b].jobId # disabledJob


\* C17: a build created without being started begins execution only through the
\* promote step: start() is called on it by a task that has set its status QUEUED
\* and stored that update, in handleNewBuild and in the legacy handleNextBuild; no
\* other step starts it.
C17_StartedOnlyByPromote ==
    [][\A b \in DOMAIN builds :
          (builds[b].starts = 0 /\ builds'[b].starts > 0) =>
              \E t \in DOMAIN tasks :
                  /\ tasks[t].pc = "start"
                  /\ tasks'[t].pc = "done"
                  /\ tasks[t].newBuild.id = b
                  /\ "queue" \in tasks[t].ops
                  /\ builds[b].status = "QUEUED"
                  /\ builds'[b].starts = 1]_vars

\* C17 witness: A,B -> C on the legacy path, C created unstarted by the first call
\* and set QUEUED, then started, by the second
C17_Witness ==
    /\ workflow = "join" /\ ~externalJoin
    /\ Len(tasks) = 2
    /\ tasks[1].ops = {"create", "status"}
    /\ tasks[2].pc = "done"
    /\ {"queue", "start"} \subseteq tasks[2].ops
    /\ builds[tasks[1].cb].status = "QUEUED"
    /\ builds[tasks[1].cb].starts = 1


\* tasks t and s process two successors in the same triggerNextJobs call
Siblings(t, s) ==
    /\ t \in DOMAIN tasks /\ s \in DOMAIN tasks
    /\ t # s
    /\ tasks[t].call = tasks[s].call

CreateEventConfigs ==
    [pipelineId : {Pipeline, OtherPipeline},
     startFrom : {"A", "B"},
     causeMessage : {"Triggered by sd@1:A"},
     parentBuildId : {Null} \cup 1..MaxBuildId,
     parentBuilds : {NoParentBuilds, SomeParentBuilds(<<>>),
                     SomeParentBuilds(createParentBuildsObj(1, 1, Pipeline, "A"))},
     parentEventId : {Null, 1}]

\* the pipelines pipelineFactory.get finds, with their scm fields and admin
Pipelines ==
    (Pipeline :> [scmContext |-> "github:github.com", scmUri |-> "uri1",
                  username |-> "adminOf1"])

\* mutant: the payload names a parent event whether or not one was given
createEventPayloadAlwaysParent(config) ==
    [pipelineId |-> config.pipelineId, startFrom |-> config.startFrom,
     type |-> "pipeline", causeMessage |-> config.causeMessage,
     parentBuildId |-> config.parentBuildId, parentEventId |-> config.parentEventId]
        @@ (IF config.parentBuilds.has
            THEN [parentBuilds |-> config.parentBuilds.val] ELSE <<>>)

\* the payload createEvent builds from its config before the first await
createEventPayload(config) ==
    [pipelineId |-> config.pipelineId, startFrom |-> config.startFrom,
     type |-> "pipeline", causeMessage |-> config.causeMessage,
     parentBuildId |-> config.parentBuildId]
        @@ (IF config.parentEventId # Null
            THEN [parentEventId |-> config.parentEventId] ELSE <<>>)
        @@ (IF config.parentBuilds.has
            THEN [parentBuilds |-> config.parentBuilds.val] ELSE <<>>)

InitCreateEvent ==
    /\ workflow = "join"
    /\ externalJoin = TRUE
    /\ disabledJob = NoId
    /\ events = <<>>
    /\ builds = <<>>
    /\ tasks = <<>>
    /\ pure \in [pc : {"pipelineFactory.get"}, config : CreateEventConfigs,
                 payload : {<<>>}, got : {{}}, created : {<<>>}, result : {Null}]

\* a collaborator call of createEvent rejects: createEvent rejects with it
CreateEventFails(pc) ==
    /\ pure.pc = pc
    /\ pure' = [pure EXCEPT !.pc = "error"]

\* const pipeline = await pipelineFactory.get(pipelineId): null for an unknown
\* pipeline, and pipeline.admin then throws
CreateEventGetPipeline ==
    /\ pure.pc = "pipelineFactory.get"
    /\ \/ pure' = [pure EXCEPT
                      !.payload = createEventPayload(pure.config),
                      !.pc = IF pure.config.pipelineId \in DOMAIN Pipelines
                             THEN "pipeline.admin" ELSE "error",
                      !.got = IF pure.config.pipelineId \in DOMAIN Pipelines
                              THEN @ \cup {"pipeline"} ELSE @]
       \/ pure' = [pure EXCEPT !.payload = createEventPayload(pure.config),
                               !.pc = "error"]
    /\ UNCHANGED <<workflow, externalJoin, disabledJob, builds, events, tasks>>

\* const realAdmin = await pipeline.admin; payload.scmContext, payload.username
CreateEventGetAdmin ==
    /\ \/ /\ pure.pc = "pipeline.admin"
          /\ pure' = [pure EXCEPT
                        !.pc = "unsealToken", !.got = @ \cup {"admin"},
                        !.payload = @ @@
                            [scmContext |-> Pipelines[pure.config.pipelineId].scmContext,
                             username |-> Pipelines[pure.config.pipelineId].username]]
       \/ CreateEventFails("pipeline.admin")
    /\ UNCHANGED <<workflow, externalJoin, disabledJob, builds, events, tasks>>

\* const token = await realAdmin.unsealToken()
CreateEventUnsealToken ==
    /\ \/ /\ pure.pc = "unsealToken"
          /\ pure' = [pure EXCEPT !.pc = "getCommitSha", !.got = @ \cup {"token"}]
       \/ CreateEventFails("unsealToken")
    /\ UNCHANGED <<workflow, externalJoin, disabledJob, builds, events, tasks>>

\* const sha = await scm.getCommitSha(scmConfig); payload.sha = sha
CreateEventGetCommitSha ==
    /\ \/ /\ pure.pc = "getCommitSha"
          /\ \E sha \in {"sha1", "sha2"} :
                pure' = [pure EXCEPT !.pc = "eventFactory.create",
                                     !.got = @ \cup {"sha"},
                                     !.payload = @ @@ [sha |-> sha]]
       \/ CreateEventFails("getCommitSha")
    /\ UNCHANGED <<workflow, externalJoin, disabledJob, builds, events, tasks>>

\* return eventFactory.create(payload)
CreateEventPersist ==
    /\ \/ /\ pure.pc = "eventFactory.create"
          /\ pure' = [pure EXCEPT !.pc = "done",
                                  !.created = Append(@, pure.payload),
                                  !.result = Len(pure.created) + 1]
       \/ CreateEventFails("eventFactory.create")
    /\ UNCHANGED <<workflow, externalJoin, disabledJob, builds, events, tasks>>

NextCreateEvent ==
    \/ CreateEventGetPipeline
    \/ CreateEventGetAdmin
    \/ CreateEventUnsealToken
    \/ CreateEventGetCommitSha
    \/ CreateEventPersist

SpecCreateEvent == InitCreateEvent /\ [][NextCreateEvent]_vars

\* C19: createEvent persists an event only after the pipeline, its admin, the
\* admin's token and the commit sha were obtained; when a collaborator call fails
\* createEvent fails and no event is created; the persisted payload carries
\* pipelineId, startFrom, sha, scmContext, username, causeMessage and parentBuildId,
\* and parentBuilds and parentEventId exactly when they were given.
C19_EventPersistedLast ==
    /\ pure.created # <<>> =>
          /\ {"pipeline", "admin", "token", "sha"} \subseteq pure.got
          /\ pure.pc = "done" /\ pure.result = 1 /\ Len(pure.created) = 1
    /\ pure.pc = "error" => (pure.created = <<>> /\ pure.result = Null)
    /\ pure.pc = "done" =>
          LET payload == pure.created[1]
              config == pure.config
          IN  /\ {"pipelineId", "startFrom", "sha", "scmContext", "username",
                  "causeMessage", "parentBuildId"} \subseteq DOMAIN payload
              /\ payload.pipelineId = config.pipelineId
              /\ payload.startFrom = config.startFrom
              /\ payload.causeMessage = config.causeMessage
              /\ payload.parentBuildId = config.parentBuildId
              /\ payload.sha \in {"sha1", "sha2"}
              /\ payload.scmContext = Pipelines[config.pipelineId].scmContext
              /\ payload.username = Pipelines[config.pipelineId].username
              /\ "parentBuilds" \in DOMAIN payload <=> config.parentBuilds.has
              /\ config.parentBuilds.has => payload.parentBuilds = config.parentBuilds.val
              /\ "parentEventId" \in DOMAIN payload <=> config.parentEventId # Null
              /\ config.parentEventId # Null =>
                    payload.parentEventId = config.parentEventId

\* C19 witness: an event persisted for a config without parentEventId and with the
\* empty parentBuilds object
C19_Witness ==
    /\ pure.pc = "done"
    /\ pure.config.parentEventId = Null
    /\ pure.config.parentBuilds = SomeParentBuilds(<<>>)
    /\ DOMAIN pure.created[1] =
          {"pipelineId", "startFrom", "type", "causeMessage", "parentBuildId",
           "parentBuilds", "scmContext", "username", "sha"}


\* ------------------------------------------------------------------ malformed graph
\* the name task t looks up in the node set of its event's graph is not there: the
\* successor's name, or on the join path of a rerun the startFrom name
NameNotInGraph(t) ==
    \/ ~HasNode(GraphOf(t), tasks[t].nextJobName)
    \/ /\ EventOf(t).parentEventId # Null
       /\ FirstCall(tasks[t].build, PipelineIdOf(t), GraphOf(t), tasks[t].nextJobName)
             \in {"getBuilds", "getNextBuild"}
       /\ ~isExternalTrigger(tasks[t].nextJobName)
       /\ ~HasNode(WorkflowGraph(workflow, events[EventOf(t).parentEventId].pipelineId),
                   EventOf(t).startFrom)

\* C20: when the successor's name, or the startFrom name looked up for it, is not
\* in the node set of the workflow graph, the processing of the successor ends
\* with an error and has created, updated, started and removed nothing.
C20_MissingNodeAborts ==
    \A t \in DOMAIN tasks :
        (NameNotInGraph(t) /\ tasks[t].pc \in Settled) =>
            /\ tasks[t].pc = "error"
            /\ tasks[t].ops \subseteq {"status"}

\* ------------------------------------------------------------------ no-join classification
\* the join list of the successor is empty or holds the finished job under neither
\* its bare nor its qualified name
NotInJoinList(t) ==
    LET names == Range(JoinListNames(JoinList(t)))
    IN  \/ names = {}
        \/ /\ Bare(CurrentJobName(t)) \notin names
           /\ Sd(PipelineIdOf(t), CurrentJobName(t)) \notin names

\* the first step of a task of a call made with externalJoin on
FirstStepOfNewPath(t) ==
    /\ externalJoin
    /\ tasks[t].pc \in {"createInternalBuild", "createExternalBuild", "nestedJoin",
                        "getNextBuild"}
    /\ tasks'[t] # tasks[t]

NestedStep(t) ==
    /\ externalJoin
    /\ isExternalTrigger(tasks[t].nextJobName)
    /\ NotInJoinList(t)
    /\ tasks[t].nextJobName.pid \in DOMAIN tasks[t].build.parentBuilds
    /\ tasks[t].pc \notin Settled
    /\ tasks'[t] # tasks[t]

\* the join list of the successor in the graph of the event the provenance records
JoinNamesInRecordedEvent(t) ==
    LET recorded == tasks[t].build.parentBuilds[tasks[t].nextJobName.pid].eventId
    IN  JoinListNames(getSrcForJoin(
            WorkflowGraph(workflow, events[recorded].pipelineId),
            Bare(tasks[t].nextJobName.job)))

\* C22: on the nested branch no event is created; the successor's build is looked
\* for among the builds of the event the finished build's provenance records for
\* the successor's pipeline and, its job ENABLED, created there unstarted when there
\* is none; an existing build gets the finished build merged into its parentBuilds;
\* done and hasFailure are those of the successor's join list in that event's
\* workflow graph; the build is removed when done with a failure, set QUEUED and
\* started when done without, and left alone otherwise.
C22_NestedJoinInsideRecordedEvent ==
    [][\A t \in DOMAIN tasks :
          NestedStep(t) =>
              LET pid == tasks[t].nextJobName.pid
                  recorded == tasks[t].build.parentBuilds[pid].eventId
                  jobId == JobId(pid, tasks[t].nextJobName.job)
                  id == tasks[t].newBuild.id
                  own == events[tasks[t].build.eventId].pipelineId
              IN  /\ events' = events
                  /\ tasks[t].pc = "nestedJoin" =>
                        /\ builds' = builds
                        /\ tasks'[t].pc = "nestedUpdate" =>
                              /\ tasks'[t].nextBuild.eventId = recorded
                              /\ tasks'[t].nextBuild.jobId = jobId
                        /\ tasks'[t].pc = "nestedCreate" =>
                              \A b \in DOMAIN builds :
                                  ~(/\ builds[b].eventId = recorded
                                    /\ builds[b].jobId = jobId
                                    /\ ~builds[b].removed)
                  /\ (tasks[t].pc = "nestedCreate" /\ JobState(jobId) = "ENABLED") =>
                        /\ Len(builds') = Len(builds) + 1
                        /\ builds'[Len(builds')].eventId = recorded
                        /\ builds'[Len(builds')].jobId = jobId
                        /\ builds'[Len(builds')].status = "CREATED"
                        /\ builds'[Len(builds')].starts = 0
                        /\ builds'[Len(builds')].parentBuilds[own].jobs[CurrentJobName(t)]
                              = tasks[t].build.id
                        /\ tasks'[t].newBuild = builds'[Len(builds')]
                  /\ tasks[t].pc = "nestedUpdate" =>
                        LET nb == tasks[t].nextBuild.id
                        IN  /\ builds'[nb].parentBuilds =
                                  deepmerge(builds[nb].parentBuilds,
                                      createParentBuildsObj(tasks[t].build.id,
                                          tasks[t].build.eventId, own, CurrentJobName(t)))
                            /\ builds'[nb].parentBuildId =
                                  <<tasks[t].build.id>> \o builds[nb].parentBuildId
                            /\ tasks'[t].newBuild = builds'[nb]
                  /\ (tasks[t].pc = "getParentBuildStatus" /\ tasks[t].kind = "build") =>
                        /\ tasks'[t].pc = "handleNewBuild"
                        /\ tasks'[t].done =
                              MembersFinished(builds, builds[id].parentBuilds,
                                              JoinNamesInRecordedEvent(t), pid)
                        /\ tasks'[t].hasFailure =
                              MemberFailed(builds, builds[id].parentBuilds,
                                           JoinNamesInRecordedEvent(t), pid)
                        /\ builds' = builds
                  /\ tasks[t].pc = "handleNewBuild" =>
                        IF ~tasks[t].done
                        THEN builds' = builds /\ tasks'[t].pc = "done"
                        ELSE IF tasks[t].hasFailure
                        THEN /\ builds' = [builds EXCEPT ![id].removed = TRUE]
                             /\ tasks'[t].pc = "done"
                        ELSE /\ builds' = [builds EXCEPT ![id].status = "QUEUED"]
                             /\ tasks'[t].pc = "start"
                  /\ tasks[t].pc = "start" =>
                        /\ builds' = [builds EXCEPT ![id].starts = @ + 1]
                        /\ tasks'[t].pc = "done"]_vars

\* C22 witness: A -> sd@2:X, [B, sd@2:X] -> C: B ended and its call created C in
\* event 1, then X of event 2 ended and its call merged X into C's provenance and
\* started C, no third event opened
C22_Witness ==
    /\ workflow = "nested" /\ externalJoin
    /\ Len(events) = 2
    /\ \E t \in DOMAIN tasks :
          /\ tasks[t].build.jobId = JobId(2, "X")
          /\ tasks[t].nextJobName = Sd(1, "C")
          /\ tasks[t].pc = "done"
          /\ tasks[t].ops = {"update", "status", "queue", "start"}
          /\ builds[tasks[t].newBuild.id].jobId = JobId(1, "C")
          /\ builds[tasks[t].newBuild.id].eventId = 1
          /\ builds[tasks[t].newBuild.id].starts = 1
          /\ builds[tasks[t].newBuild.id].parentBuilds[2].jobs["X"] = tasks[t].build.id

\* ------------------------------------------------------------------ update of an existing build
\* task t runs updateParentBuilds and its update() succeeds
UpdatesParentBuilds(t) ==
    /\ tasks[t].pc \in {"updateParentBuilds", "nestedUpdate"}
    /\ tasks'[t].pc = "getParentBuildStatus"

\* C23: updateParentBuilds puts the triggering build's id in front of the parent
\* build ids the existing build has, sets parentBuilds to the merge of its arguments
\* joinParentBuilds (the join skeleton), currentJobParentBuilds (the finished
\* build's provenance), the existing build's parentBuilds and currentBuildInfo, in
\* that order, and stores the build; a build id that is recorded on the existing
\* build stays as it is unless it is the entry of the finished job, which becomes
\* the finished build's id. Nothing else of the build and no other build changes.
C23_UpdateKeepsRecordedParents ==
    [][\A t \in DOMAIN tasks :
          UpdatesParentBuilds(t) =>
              LET nextBuild == tasks[t].nextBuild
                  id == nextBuild.id
                  build == tasks[t].build
                  own == PipelineIdOf(t)
                  join == tasks[t].pc = "updateParentBuilds"
                  joinParentBuilds ==
                      IF join
                      THEN createParentBuildsObjJoin(own, JoinListNames(JoinList(t)))
                      ELSE <<>>
                  currentJobParentBuilds == IF join THEN build.parentBuilds ELSE <<>>
                  currentBuildInfo ==
                      createParentBuildsObj(build.id, build.eventId, own,
                                            CurrentJobName(t))
                  old == nextBuild.parentBuilds
                  new == builds'[id].parentBuilds
              IN  /\ builds'[id].parentBuildId = <<build.id>> \o nextBuild.parentBuildId
                  /\ new = deepmerge(deepmerge(deepmerge(joinParentBuilds,
                                                         currentJobParentBuilds),
                                               old),
                                     currentBuildInfo)
                  /\ \A p \in DOMAIN old : \A j \in DOMAIN old[p].jobs :
                        old[p].jobs[j] # Null =>
                            /\ p \in DOMAIN new
                            /\ j \in DOMAIN new[p].jobs
                            /\ new[p].jobs[j] =
                                  IF p = own /\ j = CurrentJobName(t)
                                  THEN build.id ELSE old[p].jobs[j]
                  /\ builds' = [builds EXCEPT
                                   ![id].parentBuilds = new,
                                   ![id].parentBuildId = builds'[id].parentBuildId]
                  /\ tasks'[t].newBuild = builds'[id]]_vars

\* C23 witness: A,B -> C, the call for A created C recording A; the call for B
\* updated C: both parent build ids are on it and A's recorded build id is kept
C23_Witness ==
    /\ workflow = "join" /\ externalJoin
    /\ \E t \in DOMAIN tasks :
          /\ tasks[t].build.jobId = JobId(1, "B")
          /\ "update" \in tasks[t].ops
          /\ tasks[t].nextBuild.parentBuilds[1].jobs["A"] # Null
          /\ LET c == builds[tasks[t].newBuild.id]
             IN  /\ c.parentBuildId = <<tasks[t].build.id>> \o tasks[t].nextBuild.parentBuildId
                 /\ Len(c.parentBuildId) = 2
                 /\ c.parentBuilds[1].jobs["A"] = tasks[t].nextBuild.parentBuilds[1].jobs["A"]
                 /\ c.parentBuilds[1].jobs["B"] = tasks[t].build.id

\* ------------------------------------------------------------------ legacy join
\* task t is in handleNextBuild (externalJoin off) with the visible set it was given
InHandleNextBuild(t) ==
    /\ ~externalJoin
    /\ tasks[t].pc \in {"handleNextBuild", "isJoinDone"}
    /\ tasks'[t] # tasks[t]

\* the id of the successor's job in the workflow graph
TargetJobId(t) == FindNode(GraphOf(t), trimJobName(tasks[t].nextJobName)).id

\* some member of the join list has a FAILURE or ABORTED build in the visible set
FailedMemberVisible(t) ==
    \E i \in DOMAIN JoinList(t) : \E k \in DOMAIN tasks[t].finishedBuilds :
        /\ tasks[t].finishedBuilds[k].jobId = JoinList(t)[i].id
        /\ tasks[t].finishedBuilds[k].status \in {"FAILURE", "ABORTED"}

\* C24: with externalJoin off and a FAILURE or ABORTED build of a join member in the
\* visible set, handleNextBuild removes the target's visible build when there is
\* one and writes nothing when there is none, whether or not the other members
\* have ended, and the call creates, updates, queues and starts nothing.
C24_LegacyFailureRemovesAtOnce ==
    [][\A t \in DOMAIN tasks :
          (InHandleNextBuild(t) /\ FailedMemberVisible(t)) =>
              LET visible == tasks[t].finishedBuilds
                  targets == {k \in DOMAIN visible : visible[k].jobId = TargetJobId(t)}
              IN  /\ tasks'[t].ops \cap {"create", "update", "queue", "start"} = {}
                  /\ tasks'[t].pc # "start"
                  /\ tasks[t].pc = "handleNextBuild" =>
                        IF targets = {}
                        THEN builds' = builds
                        ELSE \E k \in targets :
                                /\ ~builds[visible[k].id].removed
                                /\ builds' = [builds EXCEPT ![visible[k].id].removed = TRUE]
                  /\ tasks[t].pc = "isJoinDone" => builds' = builds]_vars

\* C24 witness: [~D, B, C] -> A with externalJoin off: B ended SUCCESS and its call
\* created A; C ended ABORTED and its call removed A, which was never started
C24_Witness ==
    /\ workflow = "or" /\ ~externalJoin
    /\ Len(tasks) = 2
    /\ tasks[1].build.jobId = JobId(1, "B") /\ tasks[1].build.status = "SUCCESS"
    /\ tasks[1].ops = {"create", "status"}
    /\ tasks[2].build.jobId = JobId(1, "C") /\ tasks[2].build.status = "ABORTED"
    /\ tasks[2].pc = "done"
    /\ tasks[2].ops = {"remove", "status"}
    /\ builds[tasks[1].cb].removed
    /\ builds[tasks[1].cb].starts = 0

\* the ids of the SUCCESS builds of join members in the visible set
SuccessIdsVisible(t) ==
    LET joinIds == {JoinList(t)[i].id : i \in DOMAIN JoinList(t)}
        success == SelectSeq(tasks[t].finishedBuilds,
                             LAMBDA b : b.status = "SUCCESS" /\ b.jobId \in joinIds)
    IN  [i \in DOMAIN success |-> success[i].id]

\* every member of the join list has a SUCCESS build in the visible set
EveryMemberSucceeded(t) ==
    \A i \in DOMAIN JoinList(t) : \E k \in DOMAIN tasks[t].finishedBuilds :
        /\ tasks[t].finishedBuilds[k].jobId = JoinList(t)[i].id
        /\ tasks[t].finishedBuilds[k].status = "SUCCESS"

\* C25: with externalJoin off, no FAILURE or ABORTED build of a member in the
\* visible set and the target's job ENABLED, handleNextBuild creates the target
\* unstarted when the visible set has no build of it and updates its build
\* otherwise, the build's parentBuildId being the ids of the SUCCESS builds of the
\* join members; it sets the build QUEUED and starts it in that call exactly when
\* every member has a SUCCESS build in the visible set.
C25_LegacyCreateOrUpdateThenStart ==
    [][\A t \in DOMAIN tasks :
          (/\ InHandleNextBuild(t)
           /\ ~FailedMemberVisible(t)
           /\ JobState(TargetJobId(t)) = "ENABLED") =>
              LET visible == tasks[t].finishedBuilds
                  targets == {k \in DOMAIN visible : visible[k].jobId = TargetJobId(t)}
              IN  /\ tasks[t].pc = "handleNextBuild" =>
                        IF targets = {}
                        THEN /\ Len(builds') = Len(builds) + 1
                             /\ \A b \in DOMAIN builds : builds'[b] = builds[b]
                             /\ builds'[Len(builds')].jobId = TargetJobId(t)
                             /\ builds'[Len(builds')].eventId = tasks[t].build.eventId
                             /\ builds'[Len(builds')].status = "CREATED"
                             /\ builds'[Len(builds')].starts = 0
                             /\ builds'[Len(builds')].parentBuildId = SuccessIdsVisible(t)
                        ELSE \E k \in targets :
                                builds' = [builds EXCEPT ![visible[k].id].parentBuildId =
                                                             SuccessIdsVisible(t)]
                  /\ tasks[t].pc = "isJoinDone" =>
                        IF EveryMemberSucceeded(t)
                        THEN /\ tasks'[t].pc = "start"
                             /\ builds' = [builds EXCEPT
                                              ![tasks[t].newBuild.id].status = "QUEUED"]
                        ELSE /\ tasks'[t].pc = "done"
                             /\ builds' = builds]_vars

\* ------------------------------------------------------------------ external join target
\* task t opens the event of an external join target that has no CREATED build
OpensExternalJoinTarget(t) ==
    /\ externalJoin
    /\ tasks[t].pc = "createNextBuild"
    /\ isExternalTrigger(tasks[t].nextJobName)
    /\ tasks'[t] # tasks[t]

\* C26: when the join target is external and has no CREATED build, the call opens
\* one event in the target's pipeline with the target as startFrom, and the
\* start = false it asks for holds for the event's builds: the target's build is
\* neither QUEUED nor started by the creation of the event.
C26_ExternalJoinTargetNotStarted ==
    [][\A t \in DOMAIN tasks :
          OpensExternalJoinTarget(t) =>
              /\ Len(events') = Len(events) + 1
              /\ events'[Len(events')].pipelineId = tasks[t].nextJobName.pid
              /\ events'[Len(events')].startFrom = Bare(tasks[t].nextJobName.job)
              /\ \A b \in DOMAIN builds' \ DOMAIN builds :
                    /\ builds'[b].eventId = Len(events')
                    /\ builds'[b].status = "CREATED"
                    /\ builds'[b].starts = 0]_vars

\* ------------------------------------------------------------------ one build per join target
\* C27: whatever the order and interleaving of the triggerNextJobs calls, an event
\* holds at most one build of a job that is the target of a join.
C27_OneBuildPerJoinTarget ==
    \A b, c \in DOMAIN builds :
        (/\ builds[b].eventId = builds[c].eventId
         /\ builds[b].jobId = builds[c].jobId
         /\ ~builds[b].removed /\ ~builds[c].removed
         /\ Len(JoinNamesOf(events, builds[b])) > 0)
        => b = c

\* ------------------------------------------------------------------ status of the build acted on
\* the step of task t adds op to what the task has done
Does(t, op) == op \in tasks'[t].ops /\ op \notin tasks[t].ops

\* C28: handleNewBuild and handleNextBuild set a build QUEUED only when its stored
\* status is CREATED, and start only a build that was not started before.
C28_PromotesOnlyCreatedBuilds ==
    [][\A t \in DOMAIN tasks :
          /\ (Does(t, "queue") /\ tasks'[t].kind = "build")
                => builds[tasks'[t].newBuild.id].status = "CREATED"
          /\ Does(t, "start") => builds[tasks[t].newBuild.id].starts = 0]_vars

\* C29: handleNewBuild and handleNextBuild remove a build only when its stored
\* status is CREATED.
C29_RemovesOnlyCreatedBuilds ==
    [][\A t \in DOMAIN tasks :
          Does(t, "remove") =>
              \A b \in DOMAIN builds :
                  (builds'[b].removed /\ ~builds[b].removed)
                      => builds[b].status = "CREATED"]_vars

\* ------------------------------------------------------------------ C30
\* the callback t takes the existing build of an external join target from
\* getNextBuild and merges the finished build's provenance into it
MergesIntoExternalTarget(t) ==
    /\ externalJoin
    /\ tasks[t].pc = "updateParentBuilds"
    /\ isExternalTrigger(tasks[t].nextJobName)
    /\ tasks'[t].pc = "getParentBuildStatus"

\* the event an event was opened for: its parent event, or else the event its
\* provenance records
UpstreamEvent(e) ==
    IF events[e].parentEventId # Null
    THEN events[e].parentEventId
    ELSE IF events[e].parentBuilds.has
    THEN LET recorded == {events[e].parentBuilds.val[p].eventId :
                             p \in DOMAIN events[e].parentBuilds.val} \ {Null}
         IN  IF recorded = {} THEN Null ELSE CHOOSE x \in recorded : TRUE
    ELSE Null

\* the event a workflow run began with: the event that was opened for no other
RECURSIVE Origin(_)
Origin(e) == IF UpstreamEvent(e) = Null THEN e ELSE Origin(UpstreamEvent(e))

\* two events of one workflow run
SameRun(a, b) == Origin(a) = Origin(b)

\* every build the provenance map records belongs to the workflow run of the event e
FromOneRun(parentBuilds, e) ==
    \A p \in DOMAIN parentBuilds : \A j \in DOMAIN parentBuilds[p].jobs :
        parentBuilds[p].jobs[j] # Null =>
            SameRun(builds[parentBuilds[p].jobs[j]].eventId, e)

\* C30: when the finished build's provenance is merged into the existing build of an
\* external join target, that build's event and the finished build's event belong to
\* one workflow run (they go back to the same upstream event, reruns of it included),
\* and every build the merged provenance records belongs to that run
C30_ExternalTargetOfSameRun ==
    [][\A t \in DOMAIN tasks :
          MergesIntoExternalTarget(t) =>
              /\ SameRun(tasks[t].nextBuild.eventId, tasks[t].build.eventId)
              /\ FromOneRun(tasks'[t].newBuild.parentBuilds,
                            tasks[t].nextBuild.eventId)]_vars

\* ------------------------------------------------------------------ C32
\* the jobs dfs enters from startFrom: it goes on from a job only when the job has a
\* build in the parent event (a closure over the edges, not computed by dfs)
RECURSIVE EnteredFrom(_, _, _)
EnteredFrom(g, list, S) ==
    LET more == {e.dest : e \in {x \in g.edges :
                     /\ x.src \in S
                     /\ FindBuild(list, FindNode(g, x.src).id) # Null}}
    IN  IF more \subseteq S THEN S ELSE EnteredFrom(g, list, S \cup more)

\* a cycle dfs walks into: a job with a build that dfs enters and that is reached
\* again from its own successors through jobs with builds
WalksIntoCycle(g, list, startFrom) ==
    \E n \in EnteredFrom(g, list, {startFrom}) :
        /\ FindBuild(list, FindNode(g, n).id) # Null
        /\ \E e \in g.edges :
              /\ e.src = n
              /\ n \in EnteredFrom(g, list, {e.dest})

\* C32: dfs returns for every workflow graph and build list, also when the graph has
\* a cycle whose jobs all have builds in the parent event: removeDownstreamBuilds
\* never ends with the recursion running out of stack
C32_DfsTerminates ==
    pure.phase = "output" => pure.out.err # "RangeError"

\* the traversal fails to return exactly on the inputs where it walks into a cycle
\* of jobs with builds
RangeErrorExactlyOnCycles ==
    pure.phase = "output" =>
        (pure.out.err = "RangeError"
            <=> WalksIntoCycle(pure.workflowGraph, pure.builds, pure.startFrom))

\* ------------------------------------------------------------------ C31
\* the externalJoin-off handling of one completion as a function of the stored
\* builds: triggerNextJobs for the build b of the first event, which ends with
\* status and has one successor, composed of the steps LegacyCreateBuildStep,
\* LegacyGetBuildsStep, HandleNextBuildStep, HandleNextBuildThenStep and StartStep.
\* It yields the builds afterwards and what was done to the successor's build.
LegacyCall(bs, b, status) ==
    LET build == [bs[b] EXCEPT !.status = status]
        bs1 == [bs EXCEPT ![b] = build]
        workflowGraph == WorkflowGraph(workflow, Pipeline)
        nextJobName == SeqOf(getNextJobs(workflowGraph, Bare(build.jobId[2])))[1]
        joinList == getSrcForJoin(workflowGraph, nextJobName)
        jobId == FindNode(workflowGraph, trimJobName(nextJobName)).id
        finishedBuilds == getBuilds(bs1, build.eventId)
        h == handleNextBuild(joinList, finishedBuilds, jobId)
        done == isJoinDone(joinList, finishedBuilds)
        started == createBuild(bs1, Pipeline, nextJobName, build, TRUE)
        created == createBuild(bs1, Pipeline, nextJobName, build, FALSE)
        id == IF h.what = "create" THEN created.id ELSE h.nextBuild.id
        bs2 == CASE h.what = "nothing" -> bs1
                 [] h.what = "remove" -> [bs1 EXCEPT ![id].removed = TRUE]
                 [] h.what = "create" -> created.bs
                 [] OTHER -> [bs1 EXCEPT ![id].parentBuildId = h.parentBuildId]
        first == IF h.what = "nothing" THEN {} ELSE {h.what}
    IN  IF Bare(build.jobId[2]) \notin Range(JoinListNames(joinList))
        THEN [bs |-> started.bs, ops |-> {"create"}]
        ELSE IF done /\ id # Null
        THEN [bs |-> [bs2 EXCEPT ![id].status = "QUEUED", ![id].starts = @ + 1],
              ops |-> first \cup {"queue", "start"}]
        ELSE [bs |-> bs2, ops |-> first]

\* the completions so far, replayed on the externalJoin-off path from the builds of
\* the first event: the result of the k-th call
RECURSIVE LegacyReplay(_)
LegacyReplay(k) ==
    LET before == IF k = 1
                  THEN <<>> \o [i \in DOMAIN RootJobs(workflow) |->
                           [BuildRecord(i, RootJobs(workflow)[i].id, 1, TRUE, <<>>, <<>>)
                               EXCEPT !.status = "RUNNING"]]
                  ELSE LegacyReplay(k - 1).bs
    IN  LegacyCall(before, tasks[k].build.id, tasks[k].build.status)

\* what a settled callback did to the build of its successor (reads left out)
Decision(t) == tasks[t].ops \ {"status"}

\* the joins of one pipeline, every job enabled, one event: each call has one
\* callback, and the callbacks so far are the sequence of completions
OnePipelineJoin ==
    /\ workflow \in {"join", "or"}
    /\ disabledJob = NoId
    /\ Len(events) = 1
    /\ \A t \in DOMAIN tasks : tasks[t].pc \in Settled

\* C31: for a join whose members and target are in one pipeline, after every sequence
\* of completions the externalJoin-on path does to the join target what the
\* externalJoin-off path does after the same sequence (create, update, queue and
\* start, remove, or nothing)
C31_SameDecisionOnBothPaths ==
    (OnePipelineJoin /\ externalJoin) =>
        \A t \in DOMAIN tasks : Decision(t) = LegacyReplay(t).ops

\* the replay is the externalJoin-off path: with the flag off each callback did what
\* the replay yields, and the builds are those the replay yields
ReplayIsLegacyPath ==
    (OnePipelineJoin /\ ~externalJoin) =>
        /\ \A t \in DOMAIN tasks : Decision(t) = LegacyReplay(t).ops
        /\ tasks # <<>> => builds = LegacyReplay(Len(tasks)).bs

\* when every completion so far ended with SUCCESS the two paths do the same to the
\* join target
SameDecisionWhenAllSucceed ==
    (/\ OnePipelineJoin
     /\ externalJoin
     /\ \A t \in DOMAIN tasks : tasks[t].build.status = "SUCCESS") =>
        \A t \in DOMAIN tasks : Decision(t) = LegacyReplay(t).ops

====
